---- MODULE Spec2Model ----
(***************************************************************************)
(* Call-session orchestration and tool dispatch of the restaurant voice    *)
(* agent: entrypoint, Assistant.load_data, the Backend Client operations,  *)
(* the transcript event handlers, the tools and the shutdown callback.     *)
(*                                                                         *)
(* One call is modelled.  The backend, the messaging provider and the      *)
(* dialogue manager are the environment: what the backend serves is fixed  *)
(* per call in Init, the outcome of every single request is chosen when    *)
(* the request completes.  Prices are in cents.                            *)
(***************************************************************************)
EXTENDS Integers, Sequences, FiniteSets, TLC

VARIABLES
    pc,                 \* position of the entrypoint / call lifecycle
    backend,            \* what the backend serves for the dialed store
    sip,                \* SIP attributes of the caller's participant
    caller_phone,       \* assistant.caller_phone
    store_id,           \* assistant.store_id ("" when unresolved)
    store_name,         \* assistant.store_name
    api_session,        \* "none" | "open" | "closed"
    menu_by_category,   \* assistant.menu_by_category
    knowledge_base,     \* assistant.knowledge_base
    notification_phone, \* assistant.notification_phone (None when unset)
    transfer_phone,     \* assistant.transfer_phone     (None when unset)
    call_transcript,    \* assistant.call_transcript
    prefetch,           \* the load_data task created by the entrypoint
    tool,               \* the tool invocation in progress / last finished
    nTools,             \* tool invocations so far
    events,             \* every session event in arrival order (history)
    convLog,            \* every create_conversation call (history)
    loaded,             \* data sets some load has completed for (history)
    http,               \* requests sent to the backend over the call (history)
    room                \* the LiveKit room: participants, agent speech left

vars == <<pc, backend, sip, caller_phone, store_id, store_name, api_session,
          menu_by_category, knowledge_base, notification_phone,
          transfer_phone, call_transcript, prefetch, tool, nTools, events,
          convLog, loaded, http, room>>

-----------------------------------------------------------------------------
(* Bounds *)

MaxTools == 2
MaxEvents == 3
MaxItems == 2
MaxOrderItems == 3
MaxReplies == 3

-----------------------------------------------------------------------------
(* Values *)

\* Python's None
None == "<None>"

\* a menu item whose basePrice is missing (item.get('basePrice') is None)
NoPrice == -1

TestCustomerPhone == "+13239529493"
TestMerchantPhone == "+12173186661"

\* str.strip() on the texts the events carry
Strip(s) ==
    CASE s = " hi "  -> "hi"
      [] s = " ok "  -> "ok"
      [] s = "   "   -> ""
      [] s = " Orange Chicken " -> "Orange Chicken"
      [] s = " orange chicken " -> "orange chicken"
      [] OTHER       -> s

\* str.lower() on the item and category names in use
Lower(s) ==
    CASE s = "Orange Chicken" -> "orange chicken"
      [] s = "ORANGE CHICKEN" -> "orange chicken"
      [] s = " Orange Chicken " -> " orange chicken "
      [] s = "Fried Rice"     -> "fried rice"
      [] s = "FRIED RICE"     -> "fried rice"
      [] s = "Pizza"          -> "pizza"
      [] s = "Orange Beef"    -> "orange beef"
      [] s = "Orange Shrimp"  -> "orange shrimp"
      [] s = "Orange Pork"    -> "orange pork"
      [] s = "Chicken"        -> "chicken"
      [] s = "Rice"           -> "rice"
      [] s = "Beef"           -> "beef"
      [] s = "Pork"           -> "pork"
      [] s = "Noodles"        -> "noodles"
      [] s = "Soup"           -> "soup"
      [] s = "Drinks"         -> "drinks"
      [] s = "SIDES"          -> "sides"
      [] s = "Extra Sauces"   -> "extra sauces"
      [] s = "What are your hours?" -> "what are your hours?"
      [] OTHER                -> s

\* f"{x:.2f}" of an amount: <<dollars, cents>>
Fmt2(cents) == <<cents \div 100, cents % 100>>

\* set(s.split()) of the lower-cased names, queries and questions in use
Words(s) ==
    CASE s = "orange chicken"       -> {"orange", "chicken"}
      [] s = "fried rice"           -> {"fried", "rice"}
      [] s = "orange beef"          -> {"orange", "beef"}
      [] s = "orange shrimp"        -> {"orange", "shrimp"}
      [] s = "orange pork"          -> {"orange", "pork"}
      [] s = "orange tofu"          -> {"orange", "tofu"}
      [] s = "orange chicken rice"  -> {"orange", "chicken", "rice"}
      [] s = "what are your hours?" -> {"what", "are", "your", "hours?"}
      [] s = "when do you open"     -> {"when", "do", "you", "open"}
      [] s = "when do you close"    -> {"when", "do", "you", "close"}
      [] s = "what time is lunch"   -> {"what", "time", "is", "lunch"}
      [] s = "open close time"      -> {"open", "close", "time"}
      [] s = "do you deliver"       -> {"do", "you", "deliver"}
      [] s = ""                     -> {}
      [] OTHER                      -> {s}

\* a in b, for the lower-cased strings in use
IsSubstring(a, b) ==
    \/ a = b
    \/ a = ""
    \/ <<a, b>> \in { <<"orange", "orange chicken">>, <<"chicken", "orange chicken">>,
                      <<"fried", "fried rice">>, <<"rice", "fried rice">>,
                      <<"orange", "orange beef">>, <<"beef", "orange beef">>,
                      <<"orange", "orange shrimp">>, <<"shrimp", "orange shrimp">>,
                      <<"orange", "orange pork">>, <<"pork", "orange pork">>,
                      <<"side", "sides">>, <<"drink", "drinks">>,
                      <<"extra", "extra sauces">>, <<"sauce", "extra sauces">>,
                      <<"hours", "what are your hours?">>,
                      <<"hours?", "what are your hours?">> }

RECURSIVE SumSeq(_)
SumSeq(s) == IF s = <<>> THEN 0 ELSE Head(s) + SumSeq(Tail(s))

SeqsUpTo(S, n) == UNION {[1..k -> S] : k \in 0..n}

-----------------------------------------------------------------------------
(* What the backend can serve *)

OrangeChicken == [name |-> "Orange Chicken", category |-> "Chicken",
                  basePrice |-> 1299, id |-> "i1"]
FriedRice     == [name |-> "Fried Rice", category |-> "Rice",
                  basePrice |-> 899, id |-> "i2"]
OrangeBeef    == [name |-> "Orange Beef", category |-> "Beef",
                  basePrice |-> 1399, id |-> "i3"]
OrangeShrimp  == [name |-> "Orange Shrimp", category |-> "Seafood",
                  basePrice |-> 1499, id |-> "i4"]
OrangePork    == [name |-> "Orange Pork", category |-> "Pork",
                  basePrice |-> 1199, id |-> "i5"]
\* the same name in a second category at another price
LunchChicken  == [name |-> "Orange Chicken", category |-> "Lunch",
                  basePrice |-> 999, id |-> "i6"]
\* an item the backend serves without a basePrice
Unpriced      == [name |-> "Orange Chicken", category |-> "Chicken",
                  basePrice |-> NoPrice, id |-> "i1"]

BackendMenus == { <<>>, <<OrangeChicken, FriedRice>>, <<Unpriced, FriedRice>> }

\* an element of the menu response that is no JSON object: item.get raises
NotAnObject == [name |-> "<not an object>", category |-> "<not an object>",
                basePrice |-> NoPrice, id |-> "<not an object>"]

\* a malformed menu body: its second element is no object
MalformedMenu == <<OrangeChicken, NotAnObject, FriedRice>>

HoursEntry == [question |-> "What are your hours?", answer |-> "11 to 9"]

\* the body of GET /knowledge-base: a list of entries, or some other JSON value
BackendKBs == { [isList |-> TRUE,  body |-> <<HoursEntry>>],
                [isList |-> FALSE, body |-> <<>>] }

\* GET /stores/{id}: the store with or without its two phones configured
BackendStores == { [id |-> "s1", name |-> "Golden Wok",
                    notificationPhone |-> None, transferPhone |-> None],
                   [id |-> "s1", name |-> "Golden Wok",
                    notificationPhone |-> "+16182581388",
                    transferPhone |-> "+16182581388"] }

\* the SIP attributes of the caller's participant; "" when one is missing
SipAttributes == [phoneNumber : {"", "+15550100"},
                  trunkPhoneNumber : {"", "+18005550100"}]

\* outcome of one GET: 200 with the body, another status, or an exception
\* (connection error, timeout, malformed body)
FetchOutcomes == {"ok", "non200", "exception"}

-----------------------------------------------------------------------------
(* Backend Client: services/api_client.py *)

EmptyMenu == <<>>

\* the defaultdict(list) grouping of load_menu: categories in first-appearance
\* order, items in response order
RECURSIVE GroupInto(_, _)
GroupInto(acc, rest) ==
    IF rest = <<>> THEN acc
    ELSE LET it    == Head(rest)
             entry == [name |-> it.name, price |-> it.basePrice, id |-> it.id]
             idx   == {i \in 1..Len(acc) : acc[i].category = it.category}
         IN IF idx = {}
            THEN GroupInto(Append(acc, [category |-> it.category,
                                        items |-> <<entry>>]), Tail(rest))
            ELSE GroupInto([acc EXCEPT ![CHOOSE i \in idx : TRUE].items =
                                Append(@, entry)], Tail(rest))

\* what a request returns: on a missing (None) or closed session it raises
\* inside the try block; the backend has no resource under an empty store id
Reply(session, store, outcome) ==
    IF session # "open" THEN "exception"
    ELSE IF store = "" /\ outcome = "ok" THEN "non200"
    ELSE outcome

\* load_menu returning what it had grouped when an element raised
load_menu_Partial(store, session, outcome, data) ==
    IF Reply(session, store, outcome) # "ok" THEN EmptyMenu
    ELSE LET bad == {i \in 1..Len(data) : data[i] = NotAnObject}
         IN IF bad = {} THEN GroupInto(EmptyMenu, data)
            ELSE GroupInto(EmptyMenu,
                           SubSeq(data, 1, (CHOOSE i \in bad : \A j \in bad : i <= j) - 1))

\* the grouping loop runs inside the try block: an element that raises makes
\* load_menu return {} and drop what it had grouped
load_menu(store, session, outcome, data) ==
    IF Reply(session, store, outcome) = "ok"
       /\ \A i \in 1..Len(data) : data[i] # NotAnObject
    THEN GroupInto(EmptyMenu, data)
    ELSE EmptyMenu

load_knowledge_base(store, session, outcome, data) ==
    IF Reply(session, store, outcome) = "ok" /\ data.isList THEN data.body ELSE <<>>

load_store_details(store, session, outcome, data) ==
    IF Reply(session, store, outcome) = "ok"
    THEN [notification_phone |-> data.notificationPhone,
          transfer_phone |-> data.transferPhone]
    ELSE [notification_phone |-> None, transfer_phone |-> None]

\* the result of create_conversation: TRUE when it carries no "error" key
create_conversation(session, outcome) ==
    (IF session # "open" THEN "exception" ELSE outcome) = "ok"

\* fetch_store_info handing back the session after a failed login
fetch_store_info_KeepSession(login, byPhone, details, data) ==
    IF login # "ok" \/ byPhone # "ok"
    THEN [store_id |-> None, store_name |-> "Unknown Restaurant", session |-> "open"]
    ELSE [store_id |-> data.id,
          store_name |-> IF details = "ok" THEN data.name ELSE "Unknown Restaurant",
          session |-> "open"]

\* the calls of session.close() inside fetch_store_info: one when the login
\* is not answered 200 and one when a request raises
fetch_store_info_closes(login, byPhone, details) ==
    IF login # "ok" \/ byPhone = "exception"
       \/ (byPhone = "ok" /\ details = "exception")
    THEN 1 ELSE 0

\* fetch_store_info: <<store_id, store_name, session>>
fetch_store_info(login, byPhone, details, data) ==
    IF login # "ok" \/ byPhone = "exception"
       \/ (byPhone = "ok" /\ details = "exception")
    THEN [store_id |-> None, store_name |-> "Unknown Restaurant", session |-> "none"]
    ELSE IF byPhone = "ok"
         THEN [store_id |-> data.id,
               store_name |-> IF details = "ok" THEN data.name
                              ELSE "Unknown Restaurant",
               session |-> "open"]
         ELSE [store_id |-> None, store_name |-> "Unknown Restaurant",
               session |-> "open"]

-----------------------------------------------------------------------------
(* Notification Dispatcher: services/sms_service.py *)

\* what happens to one send: the client is not configured, no sender number,
\* the provider accepts the message, the provider call raises
SmsOutcomes == {"not_configured", "no_sender", "sent", "provider_error"}

send_sms(to, outcome) ==
    [to |-> to, ok |-> (outcome = "sent"),
     contacted |-> (outcome \in {"sent", "provider_error"})]

\* send_mms: as send_sms, and nothing is sent without media URLs
send_mms(to, media_urls, outcome) ==
    IF outcome \in {"not_configured", "no_sender"} \/ media_urls = <<>>
    THEN [to |-> to, ok |-> FALSE, contacted |-> FALSE]
    ELSE send_sms(to, outcome)

-----------------------------------------------------------------------------
(* State after ctx.connect() *)

NoPrefetch == [state |-> "none",
               menuGot |-> FALSE, menuOk |-> FALSE, menuVal |-> EmptyMenu,
               kbGot |-> FALSE, kbOk |-> FALSE, kbVal |-> <<>>]

NoResult == [kind |-> None, items |-> <<>>, notFound |-> <<>>,
             total |-> Fmt2(0), pickup |-> ""]

\* no request sent yet: login attempts and the status of the login response,
\* the requests of the entrypoint after the login, the orders posted, the
\* requests of the knowledge-base endpoint, the sessions created and the
\* calls of session.close()
NoHttp == [logins |-> 0, loginStatus |-> None, lookups |-> 0, orders |-> <<>>,
           kbRequests |-> 0, sessions |-> 0, closes |-> 0]

\* participants of a room: rtc.ParticipantKind is STANDARD, SIP or AGENT here
Agent      == [identity |-> "agent-AJ_1", kind |-> "AGENT"]
Caller     == [identity |-> "sip_+15550100", kind |-> "SIP"]
SecondLine == [identity |-> "sip_+15550101", kind |-> "SIP"]
Observer   == [identity |-> "web-1", kind |-> "STANDARD"]

\* the room of an inbound call, with nothing being spoken
\* and the dialogue session not started: dialogue is "idle", "started" once
\* session.start has returned, "greeted" once the greeting has been
\* requested; replies are the calls of session.generate_reply, each with
\* whether the caller was still connected; lk_api is the room API client,
\* "open" until lk_api.aclose()
QuietRoom == [participants |-> <<Agent, Caller>>, speech |-> 0,
              dialogue |-> "idle", connected |-> TRUE, replies |-> <<>>,
              lk_api |-> "open"]

IdleTool == [name |-> "none", pc |-> "idle", args |-> <<>>, pickup |-> "",
             emptyAtInvoke |-> FALSE, menuFetches |-> 0, kbFetches |-> 0,
             read |-> "none", ownLoadDone |-> FALSE,
             prefetchAtRead |-> "none", loadedAtRead |-> FALSE,
             found |-> <<>>, posts |-> 0, requests |-> 0, status |-> 0,
             order |-> <<>>, sms |-> <<>>, result |-> NoResult,
             calls |-> <<>>, identity |-> None, transfer_to |-> "",
             waited |-> 0]

\* the call once the room is connected, whatever the backend serves
ConnectedTo(phone, r) ==
    /\ pc = "start"
    /\ sip \in SipAttributes
    /\ caller_phone = ""
    /\ store_id = ""
    /\ store_name = "our restaurant"
    /\ api_session = "none"
    /\ menu_by_category = EmptyMenu
    /\ knowledge_base = <<>>
    /\ notification_phone = None
    /\ transfer_phone = phone
    /\ call_transcript = <<>>
    /\ prefetch = NoPrefetch
    /\ tool = IdleTool
    /\ nTools = 0
    /\ events = <<>>
    /\ convLog = <<>>
    /\ loaded = [menu |-> FALSE, kb |-> FALSE]
    /\ http = NoHttp
    /\ room = r

\* the assistant as the entrypoint constructs it: no transfer phone
Connected == ConnectedTo(None, QuietRoom)

Init ==
    /\ backend \in [menu : BackendMenus, kb : BackendKBs, store : BackendStores]
    /\ Connected

-----------------------------------------------------------------------------
(* Session Orchestrator: agent.py entrypoint *)

\* the requests the entrypoint sends once the login has answered 200: the
\* by-phone lookup, the store details when the lookup gave a store id, and
\* the menu fetch for the category list when the store is resolved
EntrypointRequests(login, byPhone, found) ==
    IF login # "ok" THEN 0
    ELSE 1 + (IF byPhone = "ok" THEN 1 ELSE 0) + (IF found THEN 1 ELSE 0)

\* entrypoint up to session.start: SIP attributes, store lookup, the menu
\* fetch for the category list, Assistant(...), create_task(load_data())
Entrypoint(login, byPhone, details) ==
    /\ pc = "start"
    /\ LET dialed == sip.trunkPhoneNumber
           info   == IF dialed # ""
                     THEN fetch_store_info(login, byPhone, details, backend.store)
                     ELSE [store_id |-> None, store_name |-> "our restaurant",
                           session |-> "none"]
           found  == info.store_id # None /\ info.session = "open"
       IN /\ caller_phone' = sip.phoneNumber
          /\ store_id' = IF info.store_id = None THEN "" ELSE info.store_id
          /\ store_name' = info.store_name
          /\ api_session' = info.session
          /\ prefetch' = IF found THEN [NoPrefetch EXCEPT !.state = "running"]
                                  ELSE NoPrefetch
          /\ http' = IF dialed = "" THEN http
                      ELSE [http EXCEPT !.logins = @ + 1, !.loginStatus = login,
                                        !.lookups = EntrypointRequests(login, byPhone, found),
                                        !.kbRequests = IF found THEN 1 ELSE 0,
                                        !.sessions = 1,
                                        !.closes = fetch_store_info_closes(
                                                       login, byPhone, details)]
    /\ pc' = "active"
    /\ UNCHANGED <<room, backend, sip, menu_by_category, knowledge_base,
                   notification_phone, transfer_phone, call_transcript, tool,
                   nTools, events, convLog, loaded>>

-----------------------------------------------------------------------------
(* Call Session State: assistant.py Assistant.load_data *)

\* one of the gathered fetches completes
GatherMenu(outcome) ==
    /\ prefetch.state = "running" /\ ~prefetch.menuGot
    /\ prefetch' = [prefetch EXCEPT !.menuGot = TRUE,
                      !.menuOk = (Reply(api_session, store_id, outcome) = "ok"),
                      !.menuVal = load_menu(store_id, api_session, outcome, backend.menu)]
    /\ UNCHANGED <<room, http, pc, backend, sip, caller_phone, store_id, store_name,
                   api_session, menu_by_category, knowledge_base,
                   notification_phone, transfer_phone, call_transcript, tool,
                   nTools, events, convLog, loaded>>

GatherKnowledgeBase(outcome) ==
    /\ prefetch.state = "running" /\ ~prefetch.kbGot
    /\ prefetch' = [prefetch EXCEPT !.kbGot = TRUE,
                      !.kbOk = (Reply(api_session, store_id, outcome) = "ok"),
                      !.kbVal = load_knowledge_base(store_id, api_session, outcome, backend.kb)]
    /\ UNCHANGED <<room, http, pc, backend, sip, caller_phone, store_id, store_name,
                   api_session, menu_by_category, knowledge_base,
                   notification_phone, transfer_phone, call_transcript, tool,
                   nTools, events, convLog, loaded>>

\* an entry of the list asyncio.gather(..., return_exceptions=True) returns;
\* load_menu and load_knowledge_base catch every Exception themselves
Returned(value) == [isException |-> FALSE, value |-> value]

\* load_data with one try/except around both fetches: one empty result
\* discards the other
load_data_AllOrNothing(results) ==
    IF results[1].isException \/ results[2].isException
       \/ results[1].value = EmptyMenu \/ results[2].value = <<>>
    THEN [menu_by_category |-> EmptyMenu, knowledge_base |-> <<>>]
    ELSE [menu_by_category |-> results[1].value, knowledge_base |-> results[2].value]

\* what load_data stores once asyncio.gather has returned both results
load_data(results) ==
    [menu_by_category |-> IF ~results[1].isException THEN results[1].value
                          ELSE EmptyMenu,
     knowledge_base   |-> IF ~results[2].isException THEN results[2].value
                          ELSE <<>>]

LoadDataDone ==
    /\ prefetch.state = "running" /\ prefetch.menuGot /\ prefetch.kbGot
    /\ LET stored == load_data(<<Returned(prefetch.menuVal),
                                  Returned(prefetch.kbVal)>>)
       IN /\ menu_by_category' = stored.menu_by_category
          /\ knowledge_base' = stored.knowledge_base
    /\ prefetch' = [prefetch EXCEPT !.state = "done"]
    /\ loaded' = [menu |-> TRUE, kb |-> TRUE]
    /\ UNCHANGED <<room, http, pc, backend, sip, caller_phone, store_id, store_name,
                   api_session, notification_phone, transfer_phone,
                   call_transcript, tool, nTools, events, convLog>>

-----------------------------------------------------------------------------
(* Transcript event handlers: agent.py *)

TranscribedTexts == {" hi ", "   "}
ItemRoles == {"assistant", "user"}
\* text_content of an added item: a string, or None for an item without text
ItemContents == {" ok ", "   ", None}

Entry(role, text, at) == [role |-> role, content |-> text, timestamp |-> at]

\* on_user_input_transcribed without the is_final check
on_user_input_transcribed_Interim(transcript, text, is_final, at) ==
    IF Strip(text) = "" THEN transcript
    ELSE Append(transcript, Entry("customer", Strip(text), at))

\* the transcript after on_user_input_transcribed(event) at time `at`
on_user_input_transcribed(transcript, text, is_final, at) ==
    IF Strip(text) = "" THEN transcript
    ELSE IF ~is_final THEN transcript
    ELSE Append(transcript, Entry("customer", Strip(text), at))

\* on_conversation_item_added without the role check
on_conversation_item_added_AnyRole(transcript, role, content, at) ==
    IF content = None THEN transcript
    ELSE IF Strip(content) = "" THEN transcript
    ELSE Append(transcript, Entry("agent", Strip(content), at))

\* on_conversation_item_added inserting the entry at the head of the list
on_conversation_item_added_Insert(transcript, role, content, at) ==
    IF role # "assistant" THEN transcript
    ELSE IF content = None THEN transcript
    ELSE IF Strip(content) = "" THEN transcript
    ELSE <<Entry("agent", Strip(content), at)>> \o transcript

\* the transcript after on_conversation_item_added(event) at time `at`
on_conversation_item_added(transcript, role, content, at) ==
    IF role # "assistant" THEN transcript
    ELSE IF content = None THEN transcript
    ELSE IF Strip(content) = "" THEN transcript
    ELSE Append(transcript, Entry("agent", Strip(content), at))

UserInputTranscribed(text, is_final) ==
    /\ pc = "active" /\ Len(events) < MaxEvents
    /\ events' = Append(events, [type |-> "user_input_transcribed", role |-> "user",
                                 text |-> text, is_final |-> is_final])
    /\ call_transcript' =
          on_user_input_transcribed(call_transcript, text, is_final, Len(events'))
    /\ UNCHANGED <<room, http, pc, backend, sip, caller_phone, store_id, store_name,
                   api_session, menu_by_category, knowledge_base,
                   notification_phone, transfer_phone, prefetch, tool, nTools,
                   convLog, loaded>>

ConversationItemAdded(role, content) ==
    /\ pc = "active" /\ Len(events) < MaxEvents
    /\ events' = Append(events, [type |-> "conversation_item_added", role |-> role,
                                 text |-> content, is_final |-> TRUE])
    /\ call_transcript' =
          on_conversation_item_added(call_transcript, role, content, Len(events'))
    /\ UNCHANGED <<room, http, pc, backend, sip, caller_phone, store_id, store_name,
                   api_session, menu_by_category, knowledge_base,
                   notification_phone, transfer_phone, prefetch, tool, nTools,
                   convLog, loaded>>

-----------------------------------------------------------------------------
(* Shutdown callback: agent.py save_and_cleanup *)

Conversation(by, posted) ==
    [by |-> by, posted |-> posted, result |-> "pending", storeId |-> store_id,
     customerPhone |-> caller_phone, messages |-> call_transcript]

\* save_and_cleanup skipping the save once the save_conversation tool has run
SaveAndCleanup_SkipWhenSaved ==
    /\ pc = "active"
    /\ IF call_transcript # <<>> /\ convLog = <<>>
       THEN /\ convLog' = Append(convLog, Conversation("shutdown", api_session = "open"))
            /\ IF api_session = "open"
               THEN pc' = "saving" /\ UNCHANGED api_session
               ELSE pc' = "done" /\ api_session' = api_session
       ELSE /\ pc' = "done"
            /\ api_session' = IF api_session = "open" THEN "closed" ELSE api_session
            /\ UNCHANGED convLog
    /\ room' = IF pc' = "done" THEN [room EXCEPT !.lk_api = "closed"] ELSE room
    /\ http' = IF pc' = "done" /\ api_session # "none"
               THEN [http EXCEPT !.closes = @ + 1] ELSE http
    /\ UNCHANGED <<backend, sip, caller_phone, store_id, store_name,
                   menu_by_category, knowledge_base, notification_phone,
                   transfer_phone, call_transcript, prefetch, tool, nTools,
                   events, loaded>>

\* save_and_cleanup closing the session before it saves
SaveAndCleanup_CloseFirst ==
    /\ pc = "active"
    /\ IF call_transcript # <<>>
       THEN /\ convLog' = Append(convLog, Conversation("shutdown", api_session = "open"))
            /\ IF api_session = "open"
               THEN pc' = "saving" /\ api_session' = "closed"
               ELSE pc' = "done" /\ api_session' = api_session
       ELSE /\ pc' = "done"
            /\ api_session' = IF api_session = "open" THEN "closed" ELSE api_session
            /\ UNCHANGED convLog
    /\ room' = IF pc' = "done" THEN [room EXCEPT !.lk_api = "closed"] ELSE room
    /\ http' = IF pc' = "done" /\ api_session # "none"
               THEN [http EXCEPT !.closes = @ + 1] ELSE http
    /\ UNCHANGED <<backend, sip, caller_phone, store_id, store_name,
                   menu_by_category, knowledge_base, notification_phone,
                   transfer_phone, call_transcript, prefetch, tool, nTools,
                   events, loaded>>

\* STEP 1 up to the await of create_conversation; with no transcript, or with
\* a session that cannot send, the callback runs through to the cleanup
SaveAndCleanup ==
    /\ pc = "active"
    /\ IF call_transcript # <<>>
       THEN /\ convLog' = Append(convLog, Conversation("shutdown", api_session = "open"))
            /\ IF api_session = "open"
               THEN pc' = "saving" /\ UNCHANGED api_session
               ELSE pc' = "done" /\ api_session' = api_session
       ELSE /\ pc' = "done"
            /\ api_session' = IF api_session = "open" THEN "closed" ELSE api_session
            /\ UNCHANGED convLog
    /\ room' = IF pc' = "done" THEN [room EXCEPT !.lk_api = "closed"] ELSE room
    /\ http' = IF pc' = "done" /\ api_session # "none"
               THEN [http EXCEPT !.closes = @ + 1] ELSE http
    /\ UNCHANGED <<backend, sip, caller_phone, store_id, store_name,
                   menu_by_category, knowledge_base, notification_phone,
                   transfer_phone, call_transcript, prefetch, tool, nTools,
                   events, loaded>>

\* the POST /conversations of the callback completes; STEP 2 closes the session
SaveAndCleanupSaved(outcome) ==
    /\ pc = "saving"
    /\ pc' = "done"
    /\ convLog' = [convLog EXCEPT ![Len(convLog)].result =
                      IF create_conversation(api_session, outcome) THEN "saved"
                      ELSE "error"]
    /\ api_session' = "closed"
    /\ room' = [room EXCEPT !.lk_api = "closed"]
    /\ http' = IF api_session # "none" THEN [http EXCEPT !.closes = @ + 1] ELSE http
    /\ UNCHANGED <<backend, sip, caller_phone, store_id, store_name,
                   menu_by_category, knowledge_base, notification_phone,
                   transfer_phone, call_transcript, prefetch, tool, nTools,
                   events, loaded>>

-----------------------------------------------------------------------------
(* Tool Dispatch Surface: invocation bookkeeping *)

\* the dialogue manager dispatches one tool at a time
CanInvoke == pc = "active" /\ tool.pc \in {"idle", "done", "raised"} /\ nTools < MaxTools

NewTool(name, args, pickup, empty) ==
    [IdleTool EXCEPT !.name = name, !.pc = "run", !.args = args,
                     !.pickup = pickup, !.emptyAtInvoke = empty]

Return(t, result) == [t EXCEPT !.pc = "done", !.result = result]

\* an exception leaves the tool function
Raise(t, what) == [t EXCEPT !.pc = "raised", !.result = [NoResult EXCEPT !.kind = what]]

\* a request on the session reaches the backend only while the session is
\* open: session is None or closed otherwise, and the call raises before it
\* sends anything
Sends(session) == IF session = "open" THEN 1 ELSE 0

\* the tool reads the session's catalog `which`
Reads(t, which) ==
    [t EXCEPT !.read = which, !.prefetchAtRead = prefetch.state,
              !.loadedAtRead = (t.ownLoadDone \/ loaded[which])]

-----------------------------------------------------------------------------
(* Menu Resolver *)

RECURSIVE AllItems(_)
AllItems(menu) ==
    IF menu = <<>> THEN <<>> ELSE Head(menu).items \o AllItems(Tail(menu))

\* the keys of item_lookup
InLookup(menu, name) ==
    \E i \in 1..Len(AllItems(menu)) : Lower(AllItems(menu)[i].name) = Lower(name)

\* item_lookup.get(name.lower()): a later item replaces an earlier one of the
\* same lower-cased name
item_lookup(menu, name) ==
    LET all == AllItems(menu)
        idx == {i \in 1..Len(all) : Lower(all[i].name) = Lower(name)}
    IN all[CHOOSE i \in idx : \A j \in idx : j <= i]

\* the menu items the requested names resolve to, in request order
RECURSIVE Resolve(_, _)
Resolve(menu, names) ==
    IF names = <<>> THEN <<>>
    ELSE IF InLookup(menu, Head(names))
         THEN <<item_lookup(menu, Head(names))>> \o Resolve(menu, Tail(names))
         ELSE Resolve(menu, Tail(names))

RECURSIVE Unresolved(_, _)
Unresolved(menu, names) ==
    IF names = <<>> THEN <<>>
    ELSE IF InLookup(menu, Head(names))
         THEN Unresolved(menu, Tail(names))
         ELSE <<Head(names)>> \o Unresolved(menu, Tail(names))

\* float(price) raises TypeError on a missing price
FloatRaises(items) == \E i \in 1..Len(items) : items[i].price = NoPrice

Names(items) == [i \in 1..Len(items) |-> items[i].name]
Prices(items) == [i \in 1..Len(items) |-> items[i].price]

-----------------------------------------------------------------------------
(* place_order: tools/order_tools.py *)

OrderStatuses == {200, 201, 500}

DefaultPickup == "now + 20 minutes"

\* order_items listing the newest entry first
order_items_Reversed(found) ==
    [i \in 1..Len(found) |-> [name |-> found[Len(found) + 1 - i].name, quantity |-> 1,
                              price |-> found[Len(found) + 1 - i].price,
                              id |-> found[Len(found) + 1 - i].id]]

order_items(found) ==
    [i \in 1..Len(found) |-> [name |-> found[i].name, quantity |-> 1,
                              price |-> found[i].price, id |-> found[i].id]]

order_data(found) ==
    [storeId |-> store_id, customerName |-> "Sam", customerPhone |-> caller_phone,
     items |-> order_items(found), total |-> Fmt2(SumSeq(Prices(found)))]

\* place_order from the item lookup to the order request
SubmitOrder(t, menu) ==
    LET found == Resolve(menu, t.args)
        t1    == [Reads(t, "menu") EXCEPT !.found = Names(found)]
    IN IF FloatRaises(found) THEN Raise(t1, "TypeError")
       ELSE IF found = <<>>
       THEN Return(t1, [NoResult EXCEPT !.kind = "No valid items found in the order."])
       ELSE IF api_session # "open" THEN Raise(t1, "RuntimeError")
       ELSE [t1 EXCEPT !.pc = "post", !.posts = @ + 1, !.requests = @ + 1,
                       !.order = order_data(found)]

\* the orders posted so far, once place_order has reached its order request
Posted(log, t) ==
    IF t.pc = "post" THEN [log EXCEPT !.orders = Append(@, t.order)] ELSE log

\* place_order sending the customer SMS before it checks the status
OrderResponse_SmsBeforeCheck(t, status, sms1, sms2) ==
    IF status \notin {200, 201}
    THEN Return([t EXCEPT !.status = status,
                          !.sms = <<send_sms(TestCustomerPhone, sms1)>>],
                [NoResult EXCEPT !.kind =
            "I'm sorry, there was an issue placing your order. Please try calling back."])
    ELSE Return([t EXCEPT !.status = status,
                          !.sms = <<send_sms(TestCustomerPhone, sms1),
                                    send_sms(TestMerchantPhone, sms2)>>],
                [kind |-> "Perfect! Your order is confirmed",
                 items |-> t.found, notFound |-> <<>>,
                 total |-> t.order.total,
                 pickup |-> IF t.pickup # "" THEN t.pickup ELSE DefaultPickup])

\* place_order apologising when the customer SMS was not sent
OrderResponse_FailOnSms(t, status, sms1, sms2) ==
    IF status \notin {200, 201} \/ ~send_sms(TestCustomerPhone, sms1).ok
    THEN Return([t EXCEPT !.status = status,
                          !.sms = IF status \in {200, 201}
                                  THEN <<send_sms(TestCustomerPhone, sms1)>>
                                  ELSE <<>>],
                [NoResult EXCEPT !.kind =
            "I'm sorry, there was an issue placing your order. Please try calling back."])
    ELSE Return([t EXCEPT !.status = status,
                          !.sms = <<send_sms(TestCustomerPhone, sms1),
                                    send_sms(TestMerchantPhone, sms2)>>],
                [kind |-> "Perfect! Your order is confirmed",
                 items |-> t.found, notFound |-> <<>>,
                 total |-> t.order.total,
                 pickup |-> IF t.pickup # "" THEN t.pickup ELSE DefaultPickup])

\* place_order after the response of the order request
OrderResponse(t, status, sms1, sms2) ==
    IF status \notin {200, 201}
    THEN Return([t EXCEPT !.status = status], [NoResult EXCEPT !.kind =
            "I'm sorry, there was an issue placing your order. Please try calling back."])
    ELSE Return([t EXCEPT !.status = status,
                          !.sms = <<send_sms(TestCustomerPhone, sms1),
                                    send_sms(TestMerchantPhone, sms2)>>],
                [kind |-> "Perfect! Your order is confirmed",
                 items |-> t.found, notFound |-> <<>>,
                 total |-> t.order.total,
                 pickup |-> IF t.pickup # "" THEN t.pickup ELSE DefaultPickup])

PlaceOrder(items, pickup) ==
    /\ CanInvoke
    /\ nTools' = nTools + 1
    /\ LET t == NewTool("place_order", items, pickup, menu_by_category = EmptyMenu)
       IN IF api_session = "none"
          THEN tool' = Return(t, [NoResult EXCEPT !.kind =
                                        "Error: API session not available"])
          ELSE IF menu_by_category = EmptyMenu
          THEN tool' = [t EXCEPT !.pc = "load", !.menuFetches = @ + 1,
                                 !.requests = @ + Sends(api_session)]
          ELSE tool' = SubmitOrder(t, menu_by_category)
    /\ http' = Posted(http, tool')
    /\ UNCHANGED <<room, pc, backend, sip, caller_phone, store_id, store_name,
                   api_session, menu_by_category, knowledge_base,
                   notification_phone, transfer_phone, call_transcript,
                   prefetch, events, convLog, loaded>>

\* the lazy load_menu of place_order completes
PlaceOrderLoaded(outcome) ==
    /\ tool.name = "place_order" /\ tool.pc = "load"
    /\ menu_by_category' = load_menu(store_id, api_session, outcome, backend.menu)
    /\ tool' = SubmitOrder([tool EXCEPT !.ownLoadDone = TRUE], menu_by_category')
    /\ http' = Posted(http, tool')
    /\ loaded' = [loaded EXCEPT !.menu = TRUE]
    /\ UNCHANGED <<room, pc, backend, sip, caller_phone, store_id, store_name,
                   api_session, knowledge_base, notification_phone,
                   transfer_phone, call_transcript, prefetch, nTools, events,
                   convLog>>

\* POST /orders answers; both SMS are sent before the tool returns
PlaceOrderResponse(status, sms1, sms2) ==
    /\ tool.name = "place_order" /\ tool.pc = "post"
    /\ tool' = OrderResponse(tool, status, sms1, sms2)
    /\ UNCHANGED <<room, http, pc, backend, sip, caller_phone, store_id, store_name,
                   api_session, menu_by_category, knowledge_base,
                   notification_phone, transfer_phone, call_transcript,
                   prefetch, nTools, events, convLog, loaded>>

\* POST /orders fails with a connection error or a timeout
PlaceOrderRequestFails ==
    /\ tool.name = "place_order" /\ tool.pc = "post"
    /\ tool' = Raise(tool, "ClientError")
    /\ UNCHANGED <<room, http, pc, backend, sip, caller_phone, store_id, store_name,
                   api_session, menu_by_category, knowledge_base,
                   notification_phone, transfer_phone, call_transcript,
                   prefetch, nTools, events, convLog, loaded>>

-----------------------------------------------------------------------------
(* make_reservation: tools/reservation_tools.py *)

\* the optional customer_phone argument
ReservationPhones == {None, "+15550199"}

\* make_reservation up to its reservation request
make_reservation(t) ==
    IF api_session = "none"
    THEN Return(t, [NoResult EXCEPT !.kind = "Error: API session not available"])
    ELSE IF store_id = ""
    THEN Return(t, [NoResult EXCEPT !.kind = "Error: Unable to make reservation"])
    ELSE IF api_session # "open" THEN Raise(t, "RuntimeError")
    ELSE [t EXCEPT !.pc = "post", !.posts = @ + 1, !.requests = @ + 1]

\* make_reservation after the response of the reservation request
ReservationResponse(t, status, sms) ==
    IF status \in {200, 201}
    THEN LET customer_phone_number == IF t.args[1] # None THEN t.args[1]
                                      ELSE caller_phone
         IN Return([t EXCEPT !.status = status,
                             !.sms = IF customer_phone_number # ""
                                     THEN <<send_sms(customer_phone_number, sms)>>
                                     ELSE <<>>],
                   [NoResult EXCEPT !.kind = "Perfect! Your reservation is confirmed."])
    ELSE Return([t EXCEPT !.status = status], [NoResult EXCEPT !.kind =
            "I'm sorry, I couldn't complete your reservation. Please try calling back."])

MakeReservation(customer_phone) ==
    /\ CanInvoke
    /\ nTools' = nTools + 1
    /\ tool' = make_reservation(NewTool("make_reservation", <<customer_phone>>, "", FALSE))
    /\ UNCHANGED <<room, http, pc, backend, sip, caller_phone, store_id, store_name,
                   api_session, menu_by_category, knowledge_base,
                   notification_phone, transfer_phone, call_transcript,
                   prefetch, events, convLog, loaded>>

\* POST /reservations answers; the confirmation SMS is sent before the return
MakeReservationResponse(status, sms) ==
    /\ tool.name = "make_reservation" /\ tool.pc = "post"
    /\ tool' = ReservationResponse(tool, status, sms)
    /\ UNCHANGED <<room, http, pc, backend, sip, caller_phone, store_id, store_name,
                   api_session, menu_by_category, knowledge_base,
                   notification_phone, transfer_phone, call_transcript,
                   prefetch, nTools, events, convLog, loaded>>

\* POST /reservations is answered 200 or 201 with a body that is not JSON:
\* resp.json() raises before the SMS and the return
MakeReservationBodyFails(status) ==
    /\ tool.name = "make_reservation" /\ tool.pc = "post"
    /\ status \in {200, 201}
    /\ tool' = Raise([tool EXCEPT !.status = status], "ContentTypeError")
    /\ UNCHANGED <<room, http, pc, backend, sip, caller_phone, store_id, store_name,
                   api_session, menu_by_category, knowledge_base,
                   notification_phone, transfer_phone, call_transcript,
                   prefetch, nTools, events, convLog, loaded>>

\* POST /reservations fails with a connection error or a timeout
MakeReservationRequestFails ==
    /\ tool.name = "make_reservation" /\ tool.pc = "post"
    /\ tool' = Raise(tool, "ClientError")
    /\ UNCHANGED <<room, http, pc, backend, sip, caller_phone, store_id, store_name,
                   api_session, menu_by_category, knowledge_base,
                   notification_phone, transfer_phone, call_transcript,
                   prefetch, nTools, events, convLog, loaded>>

-----------------------------------------------------------------------------
(* Menu tools: tools/menu_tools.py *)

\* list.sort(key=..., reverse=True), which is stable: the first element that
\* no other element beats, then the rest sorted
KeyLess(a, b) ==
    \/ a.key[1] < b.key[1]
    \/ a.key[1] = b.key[1] /\ a.key[2] < b.key[2]

RECURSIVE SortDesc(_)
SortDesc(seq) ==
    IF seq = <<>> THEN <<>>
    ELSE LET top == CHOOSE i \in 1..Len(seq) :
                        /\ \A j \in 1..Len(seq) : ~KeyLess(seq[i], seq[j])
                        /\ \A j \in 1..(i - 1) : KeyLess(seq[j], seq[i])
             rest == [k \in 1..(Len(seq) - 1) |-> IF k < top THEN seq[k] ELSE seq[k + 1]]
         IN <<seq[top]>> \o SortDesc(rest)

FirstN(seq, n) == IF Len(seq) <= n THEN seq ELSE SubSeq(seq, 1, n)

get_menu_by_category(menu, category) ==
    LET idx == {i \in 1..Len(menu) : Lower(menu[i].category) = Lower(category)}
    IN IF idx = {}
       THEN [NoResult EXCEPT !.kind = "Category not available", !.notFound = <<category>>]
       ELSE [NoResult EXCEPT !.kind = "item names", !.items =
                Names(menu[CHOOSE i \in idx : \A j \in idx : i <= j].items)]

\* the score of an item for a search term, times 2 * |search_words|
Match(item, term) ==
    LET search_lower == Strip(Lower(term))
        search_words == Words(search_lower)
        matching     == search_words \cap Words(Lower(item.name))
        bonus        == IF IsSubstring(search_lower, Lower(item.name))
                        THEN Cardinality(search_words) ELSE 0
    IN [item |-> item, matching_words |-> Cardinality(matching),
        score |-> 2 * Cardinality(matching) + bonus,
        full |-> 2 * Cardinality(search_words),
        key |-> <<2 * Cardinality(matching) + bonus, Cardinality(matching)>>]

\* score >= 0.5
HighConfidence_Half(m) == 10 * m.score >= 5 * m.full

\* score >= 0.8
HighConfidence(m) == 10 * m.score >= 8 * m.full

search_term(all, term) ==
    LET search_lower == Strip(Lower(term))
        exact   == {i \in 1..Len(all) : Lower(all[i].name) = search_lower}
        scored  == [i \in 1..Len(all) |-> Match(all[i], term)]
        matches == SortDesc(SelectSeq(scored, LAMBDA m : m.matching_words > 0))
    IN IF exact # {}
       THEN [term |-> term, kind |-> "Found",
             items |-> <<all[CHOOSE i \in exact : \A j \in exact : i <= j]>>]
       ELSE IF matches = <<>>
       THEN [term |-> term, kind |-> "Sorry, couldn't find", items |-> <<>>]
       ELSE IF HighConfidence(matches[1])
       THEN [term |-> term, kind |-> "Found", items |-> <<matches[1].item>>]
       ELSE [term |-> term, kind |-> "Did you mean one of these",
             items |-> [i \in 1..Len(FirstN(matches, 3)) |-> matches[i].item]]

search_menu_items(menu, item_names) ==
    [NoResult EXCEPT !.kind = "search results", !.items =
        [i \in 1..Len(item_names) |-> search_term(AllItems(menu), item_names[i])]]

\* get_item_prices matches item_name.lower() against the lookup keys
get_item_prices(menu, item_names) ==
    LET found     == Resolve(menu, item_names)
        not_found == Unresolved(menu, item_names)
    IN IF found = <<>> /\ not_found # <<>>
       THEN [NoResult EXCEPT !.kind = "Sorry, I couldn't find", !.notFound = not_found]
       ELSE [NoResult EXCEPT !.kind = "prices",
                !.items = [i \in 1..Len(found) |->
                              [name |-> found[i].name, price |-> Fmt2(found[i].price)]],
                !.total = IF Len(found) > 1 THEN Fmt2(SumSeq(Prices(found)))
                          ELSE Fmt2(0),
                !.notFound = not_found]

\* a menu tool from its read of the catalog to its return
ReadMenu(t, menu) ==
    LET t1 == Reads(t, "menu")
    IN CASE t.name = "get_menu_by_category" ->
                Return(t1, get_menu_by_category(menu, t.args[1]))
         [] t.name = "search_menu_items" ->
                IF FloatRaises(AllItems(menu)) THEN Raise(t1, "TypeError")
                ELSE Return(t1, search_menu_items(menu, t.args))
         [] t.name = "get_item_prices" ->
                IF FloatRaises(AllItems(menu)) THEN Raise(t1, "TypeError")
                ELSE Return(t1, get_item_prices(menu, t.args))

\* a menu tool that reads the catalog as it finds it
InvokeMenuTool_NoLazyLoad(name, args) ==
    /\ CanInvoke
    /\ nTools' = nTools + 1
    /\ tool' = ReadMenu(NewTool(name, args, "", menu_by_category = EmptyMenu),
                        menu_by_category)
    /\ UNCHANGED <<room, http, pc, backend, sip, caller_phone, store_id, store_name,
                   api_session, menu_by_category, knowledge_base,
                   notification_phone, transfer_phone, call_transcript,
                   prefetch, events, convLog, loaded>>

\* a menu tool up to its first await
InvokeMenuTool(name, args) ==
    /\ CanInvoke
    /\ nTools' = nTools + 1
    /\ LET t == NewTool(name, args, "", menu_by_category = EmptyMenu)
       IN IF menu_by_category = EmptyMenu
          THEN tool' = [t EXCEPT !.pc = "load", !.menuFetches = @ + 1,
                                 !.requests = @ + Sends(api_session)]
          ELSE tool' = ReadMenu(t, menu_by_category)
    /\ UNCHANGED <<room, http, pc, backend, sip, caller_phone, store_id, store_name,
                   api_session, menu_by_category, knowledge_base,
                   notification_phone, transfer_phone, call_transcript,
                   prefetch, events, convLog, loaded>>

GetMenuByCategory(category) == InvokeMenuTool("get_menu_by_category", <<category>>)

SearchMenuItems(item_names) == InvokeMenuTool("search_menu_items", item_names)

GetItemPrices(item_names) == InvokeMenuTool("get_item_prices", item_names)

\* the lazy load_menu of a menu tool completes
MenuToolLoaded(outcome) ==
    /\ tool.name \in {"get_menu_by_category", "search_menu_items", "get_item_prices"}
    /\ tool.pc = "load"
    /\ menu_by_category' = load_menu(store_id, api_session, outcome, backend.menu)
    /\ tool' = ReadMenu([tool EXCEPT !.ownLoadDone = TRUE], menu_by_category')
    /\ loaded' = [loaded EXCEPT !.menu = TRUE]
    /\ UNCHANGED <<room, http, pc, backend, sip, caller_phone, store_id, store_name,
                   api_session, knowledge_base, notification_phone,
                   transfer_phone, call_transcript, prefetch, nTools, events,
                   convLog>>

\* config.MENU_IMAGE_URLS: the two placeholder defaults, or the URLs the
\* deployment sets in MENU_IMAGE_1 and MENU_IMAGE_2
MenuImageConfigs ==
    { <<"https://your-server.com/menu-page1.jpg", "https://your-server.com/menu-page2.jpg">>,
      <<"https://cdn.example.com/menu-page1.jpg", "https://cdn.example.com/menu-page2.jpg">> }

\* url.startswith("https://your-server.com")
IsPlaceholderUrl(url) ==
    url \in {"https://your-server.com/menu-page1.jpg", "https://your-server.com/menu-page2.jpg"}

send_menu_pictures(t, urls, outcome) ==
    IF urls = <<>> \/ \A i \in 1..Len(urls) : IsPlaceholderUrl(urls[i])
    THEN Return(t, [NoResult EXCEPT !.kind =
            "Sorry, menu pictures are currently unavailable. Please ask about specific items or categories."])
    ELSE LET sent == send_mms(TestCustomerPhone, urls, outcome)
         IN Return([t EXCEPT !.sms = <<sent>>],
                   [NoResult EXCEPT !.kind =
                       IF sent.ok
                       THEN "Perfect! I've sent the complete menu to your phone."
                       ELSE "Sorry, I had trouble sending the menu pictures."])

\* send_menu_pictures has no await before its return
SendMenuPictures(urls, outcome) ==
    /\ CanInvoke
    /\ nTools' = nTools + 1
    /\ tool' = send_menu_pictures(NewTool("send_menu_pictures", <<>>, "", FALSE),
                                  urls, outcome)
    /\ UNCHANGED <<room, http, pc, backend, sip, caller_phone, store_id, store_name,
                   api_session, menu_by_category, knowledge_base,
                   notification_phone, transfer_phone, call_transcript,
                   prefetch, events, convLog, loaded>>

-----------------------------------------------------------------------------
(* Knowledge Search Engine: tools/knowledge_tools.py *)

Synonyms(word) ==
    CASE word = "kids"     -> {"children", "kid", "child"}
      [] word = "children" -> {"kids", "kid", "child"}
      [] word = "price"    -> {"cost", "pricing", "how much"}
      [] word = "cost"     -> {"price", "pricing", "how much"}
      [] word = "hours"    -> {"open", "close", "time"}
      [] word = "crab legs" -> {"crab", "seafood boil"}
      [] word = "takeout"  -> {"to-go", "take out", "carryout"}
      [] word = "to-go"    -> {"takeout", "take out", "carryout"}
      [] OTHER             -> {}

Stopwords == {"do", "you", "have", "is", "are", "the", "a", "an", "what", "how",
              "when", "where", "can", "i"}

KeyTerms == {"free", "crab legs", "pricing", "hours", "location", "delivery",
             "takeout", "to-go", "kids", "children"}

QueryWords(query_lower) ==
    Words(query_lower) \cup UNION {Synonyms(w) : w \in Words(query_lower)}

EntryScore(entry, query) ==
    LET query_lower == Strip(Lower(query))
        question    == Lower(entry.question)
        meaningful  == (QueryWords(query_lower) \cap Words(question)) \ Stopwords
    IN (IF query_lower = question THEN 1000
        ELSE IF IsSubstring(query_lower, question) THEN 500
        ELSE IF IsSubstring(question, query_lower) THEN 400
        ELSE 0)
       + 50 * Cardinality(meaningful)
       + (IF Cardinality(meaningful) >= 2 THEN 100 ELSE 0)
       + 150 * Cardinality({term \in KeyTerms : /\ IsSubstring(term, query_lower)
                                                /\ IsSubstring(term, question)})

\* search_knowledge_base keeping the entries in knowledge-base order
search_knowledge_base_Unsorted(kb, query) ==
    LET scored == [i \in 1..Len(kb) |->
                      [question |-> kb[i].question, answer |-> kb[i].answer,
                       score |-> EntryScore(kb[i], query),
                       key |-> <<EntryScore(kb[i], query), 0>>]]
        scored_results == SelectSeq(scored, LAMBDA r : r.score >= 50)
    IN IF scored_results # <<>>
       THEN [NoResult EXCEPT !.kind = "Q/A", !.items = FirstN(scored_results, 5)]
       ELSE [NoResult EXCEPT !.kind = "I don't have specific info about",
                             !.notFound = <<query>>]

\* search_knowledge_base returning nothing when no entry reaches the threshold
search_knowledge_base_NoFallback(kb, query) ==
    LET scored == [i \in 1..Len(kb) |->
                      [question |-> kb[i].question, answer |-> kb[i].answer,
                       score |-> EntryScore(kb[i], query),
                       key |-> <<EntryScore(kb[i], query), 0>>]]
        scored_results == SortDesc(SelectSeq(scored, LAMBDA r : r.score >= 50))
    IN IF scored_results # <<>>
       THEN [NoResult EXCEPT !.kind = "Q/A", !.items = FirstN(scored_results, 5)]
       ELSE NoResult

search_knowledge_base(kb, query) ==
    LET scored == [i \in 1..Len(kb) |->
                      [question |-> kb[i].question, answer |-> kb[i].answer,
                       score |-> EntryScore(kb[i], query),
                       key |-> <<EntryScore(kb[i], query), 0>>]]
        scored_results == SortDesc(SelectSeq(scored, LAMBDA r : r.score >= 50))
    IN IF scored_results # <<>>
       THEN [NoResult EXCEPT !.kind = "Q/A", !.items = FirstN(scored_results, 5)]
       ELSE [NoResult EXCEPT !.kind = "I don't have specific info about",
                             !.notFound = <<query>>]

\* search_knowledge_base from its read of the knowledge base to its return
ReadKnowledgeBase(t, kb) ==
    LET t1 == Reads(t, "kb")
    IN IF kb = <<>>
       THEN Return(t1, [NoResult EXCEPT !.kind =
                "I don't have that information. Please call us directly."])
       ELSE Return(t1, search_knowledge_base(kb, t.args[1]))

SearchKnowledgeBase(query) ==
    /\ CanInvoke
    /\ nTools' = nTools + 1
    /\ LET t == NewTool("search_knowledge_base", <<query>>, "", knowledge_base = <<>>)
       IN IF knowledge_base = <<>>
          THEN tool' = [t EXCEPT !.pc = "load", !.kbFetches = @ + 1,
                                 !.requests = @ + Sends(api_session)]
          ELSE tool' = ReadKnowledgeBase(t, knowledge_base)
    /\ http' = IF knowledge_base = <<>>
               THEN [http EXCEPT !.kbRequests = @ + Sends(api_session)]
               ELSE http
    /\ UNCHANGED <<room, pc, backend, sip, caller_phone, store_id, store_name,
                   api_session, menu_by_category, knowledge_base,
                   notification_phone, transfer_phone, call_transcript,
                   prefetch, events, convLog, loaded>>

\* the lazy load_knowledge_base of search_knowledge_base completes
KnowledgeBaseLoaded(outcome) ==
    /\ tool.name = "search_knowledge_base" /\ tool.pc = "load"
    /\ knowledge_base' = load_knowledge_base(store_id, api_session, outcome, backend.kb)
    /\ tool' = ReadKnowledgeBase([tool EXCEPT !.ownLoadDone = TRUE], knowledge_base')
    /\ loaded' = [loaded EXCEPT !.kb = TRUE]
    /\ UNCHANGED <<room, http, pc, backend, sip, caller_phone, store_id, store_name,
                   api_session, menu_by_category, notification_phone,
                   transfer_phone, call_transcript, prefetch, nTools, events,
                   convLog>>

-----------------------------------------------------------------------------
(* Call tools: tools/call_tools.py *)

\* str.startswith
startswith(str, prefix) ==
    Len(str) >= Len(prefix) /\ SubSeq(str, 1, Len(prefix)) = prefix

\* the transfer target with a "tel:" prefix whatever the configured number
tel_uri_Always(phone) == "tel:" \o phone

\* transfer_to: the configured number, prefixed with "tel:" unless it has it
tel_uri(phone) == IF startswith(phone, "tel:") THEN phone ELSE "tel:" \o phone

\* one request to the room service or the SIP service, once it has answered
\* or raised; participants is what list_participants answered
ApiCall(op, identity, to, ok, participants) ==
    [op |-> op, identity |-> identity, transfer_to |-> to, ok |-> ok,
     participants |-> participants]

\* identity of the first SIP participant of the list, None without one
FirstSip(participants) ==
    LET sips == {i \in 1..Len(participants) : participants[i].kind = "SIP"}
    IN  IF sips = {} THEN None
        ELSE participants[CHOOSE i \in sips : \A j \in sips : i <= j].identity

\* the room without the participant of this identity
Without(participants, identity) ==
    SelectSeq(participants, LAMBDA p : p.identity # identity)

NoManagerNumber ==
    "I'm sorry, I don't have a manager number configured. Please call back and ask for assistance."

NoActiveCall == "I'm sorry, I couldn't find the active call to transfer."

TransferApology ==
    "I'm sorry, I couldn't transfer the call. Let me see if I can help you instead."

Transferring == "Transferring you now. Please hold."

\* transfer_to_manager up to the participant lookup; the room API client and
\* the room name are always set by the entrypoint
transfer_to_manager(t, phone) ==
    IF phone = None \/ phone = ""
    THEN Return(t, [NoResult EXCEPT !.kind =
            "I'm sorry, I don't have a manager number configured. Please call back and ask for assistance."])
    ELSE [t EXCEPT !.pc = "list_participants", !.transfer_to = tel_uri(phone)]

TransferToManager ==
    /\ CanInvoke
    /\ nTools' = nTools + 1
    /\ tool' = transfer_to_manager(NewTool("transfer_to_manager", <<>>, "", FALSE),
                                   transfer_phone)
    /\ UNCHANGED <<room, http, pc, backend, sip, caller_phone, store_id, store_name,
                   api_session, menu_by_category, knowledge_base,
                   notification_phone, transfer_phone, call_transcript,
                   prefetch, events, convLog, loaded>>

\* transfer_to_manager from the answer of list_participants to the await of
\* transfer_sip_participant
transfer_listed(t, reply, participants) ==
    LET listed == [t EXCEPT !.calls = Append(@,
                      ApiCall("list_participants", None, "", reply = "ok",
                              IF reply = "ok" THEN participants ELSE <<>>))]
    IN  IF reply # "ok"
        THEN Return(listed, [NoResult EXCEPT !.kind = TransferApology])
        ELSE IF FirstSip(participants) = None
        THEN Return(listed, [NoResult EXCEPT !.kind = NoActiveCall])
        ELSE [listed EXCEPT !.pc = "transfer_sip_participant",
                            !.identity = FirstSip(participants)]

TransferListed(reply) ==
    /\ tool.name = "transfer_to_manager" /\ tool.pc = "list_participants"
    /\ tool' = transfer_listed(tool, reply, room.participants)
    /\ UNCHANGED <<room, http, pc, backend, sip, caller_phone, store_id, store_name,
                   api_session, menu_by_category, knowledge_base,
                   notification_phone, transfer_phone, call_transcript,
                   prefetch, nTools, events, convLog, loaded>>

\* transfer_to_manager from the answer of transfer_sip_participant
transfer_answered(t, reply) ==
    Return([t EXCEPT !.calls = Append(@,
               ApiCall("transfer_sip_participant", t.identity, t.transfer_to,
                       reply = "ok", <<>>))],
           [NoResult EXCEPT !.kind = IF reply = "ok" THEN Transferring
                                     ELSE TransferApology])

\* a completed transfer takes the SIP participant out of the room
TransferAnswered(reply) ==
    /\ tool.name = "transfer_to_manager" /\ tool.pc = "transfer_sip_participant"
    /\ tool' = transfer_answered(tool, reply)
    /\ room' = IF reply = "ok"
               THEN [room EXCEPT !.participants = Without(@, tool.identity)]
               ELSE room
    /\ UNCHANGED <<http, pc, backend, sip, caller_phone, store_id, store_name,
                   api_session, menu_by_category, knowledge_base,
                   notification_phone, transfer_phone, call_transcript,
                   prefetch, nTools, events, convLog, loaded>>

\* seconds end_call sleeps before it looks for the participant
EndCallDelay == 10

\* end_call is invoked while the goodbye has `speech` seconds left to play
EndCall(speech) ==
    /\ CanInvoke
    /\ nTools' = nTools + 1
    /\ tool' = [NewTool("end_call", <<>>, "", FALSE) EXCEPT !.pc = "sleep"]
    /\ room' = [room EXCEPT !.speech = speech]
    /\ UNCHANGED <<http, pc, backend, sip, caller_phone, store_id, store_name,
                   api_session, menu_by_category, knowledge_base,
                   notification_phone, transfer_phone, call_transcript,
                   prefetch, events, convLog, loaded>>

\* one second passes: asyncio.sleep gets closer to its end, the agent speaks
\* one second more of its utterance; the sleep of a tool goes on when the
\* shutdown callback runs
SecondPasses ==
    /\ pc # "start"
    /\ (tool.pc = "sleep" /\ tool.waited < EndCallDelay) \/ room.speech > 0
    /\ tool' = IF tool.pc = "sleep" /\ tool.waited < EndCallDelay
               THEN [tool EXCEPT !.waited = @ + 1] ELSE tool
    /\ room' = [room EXCEPT !.speech = IF @ > 0 THEN @ - 1 ELSE 0]
    /\ UNCHANGED <<http, pc, backend, sip, caller_phone, store_id, store_name,
                   api_session, menu_by_category, knowledge_base,
                   notification_phone, transfer_phone, call_transcript,
                   prefetch, nTools, events, convLog, loaded>>

CallEnding == "Call ending..."

CallEnded == "Call ended. Goodbye!"

\* end_call from the answer of list_participants to the await of
\* remove_participant for the first SIP participant of the list
end_call_listed(t, reply, participants) ==
    LET listed == [t EXCEPT !.calls = Append(@,
                      ApiCall("list_participants", None, "", reply = "ok",
                              IF reply = "ok" THEN participants ELSE <<>>))]
    IN  IF reply # "ok" \/ FirstSip(participants) = None
        THEN Return(listed, [NoResult EXCEPT !.kind = CallEnding])
        ELSE [listed EXCEPT !.pc = "remove_participant",
                            !.identity = FirstSip(participants)]

\* the sleep has returned and list_participants answers
EndCallListed(reply) ==
    /\ tool.name = "end_call" /\ tool.pc = "sleep"
    /\ tool.waited = EndCallDelay
    /\ tool' = end_call_listed(tool, reply, room.participants)
    /\ UNCHANGED <<room, http, pc, backend, sip, caller_phone, store_id, store_name,
                   api_session, menu_by_category, knowledge_base,
                   notification_phone, transfer_phone, call_transcript,
                   prefetch, nTools, events, convLog, loaded>>

\* end_call saying goodbye whatever remove_participant did
end_call_removed_AlwaysGoodbye(t, reply) ==
    Return([t EXCEPT !.calls = Append(@,
               ApiCall("remove_participant", t.identity, "", reply = "ok", <<>>))],
           [NoResult EXCEPT !.kind = CallEnded])

\* end_call from the answer of remove_participant: the return inside the loop,
\* or the except clause
end_call_removed(t, reply) ==
    Return([t EXCEPT !.calls = Append(@,
               ApiCall("remove_participant", t.identity, "", reply = "ok", <<>>))],
           [NoResult EXCEPT !.kind = IF reply = "ok" THEN CallEnded
                                     ELSE CallEnding])

EndCallRemoved(reply) ==
    /\ tool.name = "end_call" /\ tool.pc = "remove_participant"
    /\ tool' = end_call_removed(tool, reply)
    /\ room' = IF reply = "ok"
               THEN [room EXCEPT !.participants = Without(@, tool.identity)]
               ELSE room
    /\ UNCHANGED <<http, pc, backend, sip, caller_phone, store_id, store_name,
                   api_session, menu_by_category, knowledge_base,
                   notification_phone, transfer_phone, call_transcript,
                   prefetch, nTools, events, convLog, loaded>>

\* save_conversation looking at the session before the store and the caller
save_conversation_SessionFirst(t, transcript, store, caller, session) ==
    IF transcript = <<>>
    THEN Return(t, [NoResult EXCEPT !.kind = "No conversation data to save"])
    ELSE IF session = "none"
    THEN Return(t, [NoResult EXCEPT !.kind = "API session not available"])
    ELSE IF store = "" \/ caller = ""
    THEN Return(t, [NoResult EXCEPT !.kind =
                       "Missing required information to save conversation"])
    ELSE [t EXCEPT !.pc = "post", !.requests = @ + Sends(session)]

\* save_conversation up to the await of create_conversation
save_conversation(t, transcript, store, caller, session) ==
    IF transcript = <<>>
    THEN Return(t, [NoResult EXCEPT !.kind = "No conversation data to save"])
    ELSE IF store = "" \/ caller = ""
    THEN Return(t, [NoResult EXCEPT !.kind =
                       "Missing required information to save conversation"])
    ELSE IF session = "none"
    THEN Return(t, [NoResult EXCEPT !.kind = "API session not available"])
    ELSE [t EXCEPT !.pc = "post", !.requests = @ + Sends(session)]

SaveConversation ==
    /\ CanInvoke
    /\ nTools' = nTools + 1
    /\ tool' = save_conversation(NewTool("save_conversation", <<>>, "", FALSE),
                                 call_transcript, store_id, caller_phone, api_session)
    /\ convLog' = IF tool'.pc = "post"
                  THEN Append(convLog, Conversation("tool", api_session = "open"))
                  ELSE convLog
    /\ UNCHANGED <<room, http, pc, backend, sip, caller_phone, store_id, store_name,
                   api_session, menu_by_category, knowledge_base,
                   notification_phone, transfer_phone, call_transcript,
                   prefetch, events, loaded>>

\* create_conversation returns to save_conversation
SaveConversationDone(outcome) ==
    /\ tool.name = "save_conversation" /\ tool.pc = "post"
    /\ LET saved == create_conversation(api_session, outcome)
           mine  == CHOOSE i \in 1..Len(convLog) :
                        /\ convLog[i].by = "tool" /\ convLog[i].result = "pending"
       IN /\ tool' = Return(tool, [NoResult EXCEPT !.kind =
                        IF saved THEN "Conversation saved successfully"
                        ELSE "Failed to save conversation"])
          /\ convLog' = [convLog EXCEPT ![mine].result =
                            IF saved THEN "saved" ELSE "error"]
    /\ UNCHANGED <<room, http, pc, backend, sip, caller_phone, store_id, store_name,
                   api_session, menu_by_category, knowledge_base,
                   notification_phone, transfer_phone, call_transcript,
                   prefetch, nTools, events, loaded>>

-----------------------------------------------------------------------------
(* Dialogue start: agent.py entrypoint after create_task(load_data()) *)

\* session.generate_reply is called
generate_reply(r, what) ==
    [r EXCEPT !.replies = Append(@, [what |-> what, connected |-> r.connected])]

\* session.start awaiting the prefetch task first
SessionStart_AfterPrefetch ==
    /\ pc = "active" /\ room.dialogue = "idle"
    /\ prefetch.state \in {"none", "done"}
    /\ room' = [room EXCEPT !.dialogue = "started"]
    /\ UNCHANGED <<http, pc, backend, sip, caller_phone, store_id, store_name,
                   api_session, menu_by_category, knowledge_base,
                   notification_phone, transfer_phone, call_transcript,
                   prefetch, tool, nTools, events, convLog, loaded>>

\* await session.start(agent=assistant, room=ctx.room, ...)
SessionStart ==
    /\ pc = "active" /\ room.dialogue = "idle"
    /\ room' = [room EXCEPT !.dialogue = "started"]
    /\ UNCHANGED <<http, pc, backend, sip, caller_phone, store_id, store_name,
                   api_session, menu_by_category, knowledge_base,
                   notification_phone, transfer_phone, call_transcript,
                   prefetch, tool, nTools, events, convLog, loaded>>

\* await session.generate_reply(instructions="Say exactly: '<greeting>'")
Greeting ==
    /\ pc = "active" /\ room.dialogue = "started"
    /\ room' = [generate_reply(room, "greeting") EXCEPT !.dialogue = "greeted"]
    /\ UNCHANGED <<http, pc, backend, sip, caller_phone, store_id, store_name,
                   api_session, menu_by_category, knowledge_base,
                   notification_phone, transfer_phone, call_transcript,
                   prefetch, tool, nTools, events, convLog, loaded>>

\* _on_agent_false_interruption: the session emits agent_false_interruption
OnAgentFalseInterruption ==
    /\ pc = "active" /\ room.dialogue # "idle"
    /\ Len(room.replies) < MaxReplies
    /\ room' = generate_reply(room, "resume")
    /\ UNCHANGED <<http, pc, backend, sip, caller_phone, store_id, store_name,
                   api_session, menu_by_category, knowledge_base,
                   notification_phone, transfer_phone, call_transcript,
                   prefetch, tool, nTools, events, convLog, loaded>>

\* the caller hangs up
Disconnect ==
    /\ pc = "active" /\ room.connected
    /\ room' = [room EXCEPT !.connected = FALSE,
                            !.participants = SelectSeq(@, LAMBDA p : p.kind # "SIP")]
    /\ UNCHANGED <<http, pc, backend, sip, caller_phone, store_id, store_name,
                   api_session, menu_by_category, knowledge_base,
                   notification_phone, transfer_phone, call_transcript,
                   prefetch, tool, nTools, events, convLog, loaded>>

-----------------------------------------------------------------------------
(* The Backend Client operations called on their own *)

Sessions == {"none", "open", "closed"}
StoreIds == {"", "s1"}

\* the record of one call of an operation: its arguments and what it returned
Called(name, args, value) ==
    [IdleTool EXCEPT !.name = name, !.pc = "done", !.args = args,
                     !.result = [NoResult EXCEPT !.kind = "returned", !.items = value]]

CallFetchStoreInfo(login, byPhone, details) ==
    /\ tool' = Called("fetch_store_info",
                      [login |-> login, byPhone |-> byPhone, details |-> details],
                      fetch_store_info(login, byPhone, details, backend.store))
    /\ UNCHANGED <<room, http, pc, backend, sip, caller_phone, store_id, store_name,
                   api_session, menu_by_category, knowledge_base,
                   notification_phone, transfer_phone, call_transcript,
                   prefetch, nTools, events, convLog, loaded>>

CallLoadMenu(store, session, outcome) ==
    /\ tool' = Called("load_menu",
                      [store |-> store, session |-> session, outcome |-> outcome],
                      load_menu(store, session, outcome, backend.menu))
    /\ UNCHANGED <<room, http, pc, backend, sip, caller_phone, store_id, store_name,
                   api_session, menu_by_category, knowledge_base,
                   notification_phone, transfer_phone, call_transcript,
                   prefetch, nTools, events, convLog, loaded>>

CallLoadKnowledgeBase(store, session, outcome) ==
    /\ tool' = Called("load_knowledge_base",
                      [store |-> store, session |-> session, outcome |-> outcome],
                      load_knowledge_base(store, session, outcome, backend.kb))
    /\ UNCHANGED <<room, http, pc, backend, sip, caller_phone, store_id, store_name,
                   api_session, menu_by_category, knowledge_base,
                   notification_phone, transfer_phone, call_transcript,
                   prefetch, nTools, events, convLog, loaded>>

CallLoadStoreDetails(store, session, outcome) ==
    /\ tool' = Called("load_store_details",
                      [store |-> store, session |-> session, outcome |-> outcome],
                      load_store_details(store, session, outcome, backend.store))
    /\ UNCHANGED <<room, http, pc, backend, sip, caller_phone, store_id, store_name,
                   api_session, menu_by_category, knowledge_base,
                   notification_phone, transfer_phone, call_transcript,
                   prefetch, nTools, events, convLog, loaded>>

CallCreateConversation(store, session, outcome) ==
    /\ tool' = Called("create_conversation",
                      [store |-> store, session |-> session, outcome |-> outcome],
                      create_conversation(session, outcome))
    /\ UNCHANGED <<room, http, pc, backend, sip, caller_phone, store_id, store_name,
                   api_session, menu_by_category, knowledge_base,
                   notification_phone, transfer_phone, call_transcript,
                   prefetch, nTools, events, convLog, loaded>>

-----------------------------------------------------------------------------
(* Specifications *)

ItemNames == {"orange chicken", "Pizza"}
SearchTerms == {"ORANGE CHICKEN", "orange beef"}
Categories == {"chicken", "Pizza"}
Queries == {"hours", "pizza"}
PickupTimes == {"", "11:30 AM"}

Start ==
    \E login \in {"ok", "non200"}, byPhone \in {"ok", "non200"},
       details \in {"ok", "non200"} :
        Entrypoint(login, byPhone, details)

Prefetch ==
    \/ \E outcome \in FetchOutcomes : GatherMenu(outcome)
    \/ \E outcome \in FetchOutcomes : GatherKnowledgeBase(outcome)
    \/ LoadDataDone

Order ==
    \/ \E items \in SeqsUpTo(ItemNames, MaxItems), pickup \in PickupTimes :
           PlaceOrder(items, pickup)
    \/ \E outcome \in FetchOutcomes : PlaceOrderLoaded(outcome)
    \/ \E status \in OrderStatuses, sms1 \in SmsOutcomes, sms2 \in SmsOutcomes :
           PlaceOrderResponse(status, sms1, sms2)
    \/ PlaceOrderRequestFails

Menu ==
    \/ \E category \in Categories : GetMenuByCategory(category)
    \/ \E item_names \in SeqsUpTo(SearchTerms, MaxItems) : SearchMenuItems(item_names)
    \/ \E item_names \in SeqsUpTo(ItemNames, MaxItems) : GetItemPrices(item_names)
    \/ \E outcome \in FetchOutcomes : MenuToolLoaded(outcome)
    \/ \E urls \in MenuImageConfigs, outcome \in SmsOutcomes :
           SendMenuPictures(urls, outcome)

Knowledge ==
    \/ \E query \in Queries : SearchKnowledgeBase(query)
    \/ \E outcome \in FetchOutcomes : KnowledgeBaseLoaded(outcome)

Reservation ==
    \/ \E customer_phone \in ReservationPhones : MakeReservation(customer_phone)
    \/ \E status \in OrderStatuses, sms \in SmsOutcomes :
           MakeReservationResponse(status, sms)
    \/ MakeReservationRequestFails

Transcript ==
    \/ \E text \in TranscribedTexts, is_final \in BOOLEAN :
           UserInputTranscribed(text, is_final)
    \/ \E role \in ItemRoles, content \in ItemContents :
           ConversationItemAdded(role, content)

Shutdown ==
    \/ SaveAndCleanup
    \/ \E outcome \in FetchOutcomes : SaveAndCleanupSaved(outcome)

\* The event handlers write call_transcript and nothing else, and no tool but
\* save_conversation reads it.  Spec is the call without the transcript:
\* entrypoint, prefetch, the catalog and order tools, transfer and shutdown,
\* for a caller whose number is known.
ToolInit == Init /\ sip.phoneNumber # ""

Next ==
    \/ Start
    \/ Prefetch
    \/ Order
    \/ Menu
    \/ Knowledge
    \/ Reservation
    \/ TransferToManager
    \/ SaveAndCleanup

Spec == ToolInit /\ [][Next]_vars

\* TranscriptSpec is the call with the transcript: the event handlers, the
\* save_conversation tool and the shutdown callback, for one store.
TranscriptInit ==
    /\ Init
    /\ backend = [menu |-> <<OrangeChicken, FriedRice>>,
                  kb |-> [isList |-> TRUE, body |-> <<HoursEntry>>],
                  store |-> CHOOSE st \in BackendStores : st.transferPhone # None]

TranscriptNext ==
    \/ Start
    \/ Transcript
    \/ SaveConversation
    \/ \E outcome \in FetchOutcomes : SaveConversationDone(outcome)
    \/ Shutdown

TranscriptSpec == TranscriptInit /\ [][TranscriptNext]_vars

\* OrderSpec is the call of a known caller to a resolved store in which the
\* dialogue manager only places orders, of up to MaxOrderItems names, each
\* before the prefetch has stored anything.
OrderNames == {"orange chicken", "FRIED RICE", "Pizza"}

OrderInit ==
    /\ Init
    /\ sip = [phoneNumber |-> "+15550100", trunkPhoneNumber |-> "+18005550100"]
    /\ backend.kb = [isList |-> TRUE, body |-> <<HoursEntry>>]
    /\ backend.store.notificationPhone = None

OrderNext ==
    \/ Start
    \/ \E items \in SeqsUpTo(OrderNames, MaxOrderItems) : PlaceOrder(items, "11:30 AM")
    \/ \E outcome \in FetchOutcomes : PlaceOrderLoaded(outcome)
    \/ \E status \in OrderStatuses, sms \in {"sent", "provider_error"} :
           PlaceOrderResponse(status, sms, sms)
    \/ PlaceOrderRequestFails

OrderSpec == OrderInit /\ [][OrderNext]_vars

\* StartupSpec is the entrypoint from the store lookup to the greeting, with
\* the prefetch running beside it, false interruptions and the caller hanging
\* up.  The entrypoint coroutine is scheduled until its end; nothing is assumed
\* of the backend answering the prefetch.
StartupInit == Init /\ backend.kb.isList

StartupNext ==
    \/ Start
    \/ Prefetch
    \/ SessionStart
    \/ Greeting
    \/ OnAgentFalseInterruption
    \/ Disconnect

StartupSpec ==
    /\ StartupInit /\ [][StartupNext]_vars
    /\ WF_vars(Start) /\ WF_vars(SessionStart) /\ WF_vars(Greeting)

\* ReservationSpec makes reservations in calls with and without a caller
\* phone, a session and a store
ReservationInit ==
    /\ backend = [menu |-> <<OrangeChicken, FriedRice>>,
                  kb |-> [isList |-> TRUE, body |-> <<HoursEntry>>],
                  store |-> CHOOSE st \in BackendStores : st.transferPhone # None]
    /\ Connected
    /\ sip.trunkPhoneNumber # ""

ReservationNext ==
    \/ \E login \in {"ok", "non200"}, byPhone \in {"ok", "non200"} :
           Entrypoint(login, byPhone, "ok")
    \/ \E customer_phone \in ReservationPhones : MakeReservation(customer_phone)
    \/ \E status \in OrderStatuses, sms \in SmsOutcomes :
           MakeReservationResponse(status, sms)
    \/ \E status \in {200, 201} : MakeReservationBodyFails(status)
    \/ MakeReservationRequestFails

ReservationSpec == ReservationInit /\ [][ReservationNext]_vars

\* CallSpec runs the call tools on an assistant that holds a transfer phone
\* (Assistant(transfer_phone=...)), in rooms with no, one or two SIP
\* participants, with goodbyes of every length up to MaxSpeech seconds.
MaxSpeech == 12

TransferPhones == {None, "", "+16182581388", "tel:+16182581388"}

Rooms == {<<>>, <<Agent>>, <<Agent, Caller>>, <<Observer, Caller, SecondLine>>}

ApiReplies == {"ok", "error"}

CallInit ==
    /\ backend = [menu |-> <<OrangeChicken, FriedRice>>,
                  kb |-> [isList |-> TRUE, body |-> <<HoursEntry>>],
                  store |-> CHOOSE st \in BackendStores : st.transferPhone # None]
    /\ \E phone \in TransferPhones, participants \in Rooms :
           ConnectedTo(phone, [QuietRoom EXCEPT !.participants = participants])
    /\ sip = [phoneNumber |-> "+15550100", trunkPhoneNumber |-> "+18005550100"]

CallNext ==
    \/ Entrypoint("ok", "ok", "ok")
    \/ TransferToManager
    \/ \E reply \in ApiReplies : TransferListed(reply)
    \/ \E reply \in ApiReplies : TransferAnswered(reply)
    \/ \E speech \in 0..MaxSpeech : EndCall(speech)
    \/ SecondPasses
    \/ \E reply \in ApiReplies : EndCallListed(reply)
    \/ \E reply \in ApiReplies : EndCallRemoved(reply)

CallSpec == CallInit /\ [][CallNext]_vars

\* DegradedSpec is the call for which the store is not resolved: no dialed
\* number, a failed login, or a by-phone lookup that gives no store.  The
\* dialogue manager invokes every store-data tool, the caller speaks, and the
\* call shuts down.
DegradedInit ==
    /\ backend = [menu |-> <<OrangeChicken, FriedRice>>,
                  kb |-> [isList |-> TRUE, body |-> <<HoursEntry>>],
                  store |-> CHOOSE st \in BackendStores : st.transferPhone # None]
    /\ Connected
    /\ sip.phoneNumber # ""

DegradedNext ==
    \/ \E login \in {"ok", "non200"}, byPhone \in {"ok", "non200"} :
           /\ ~(login = "ok" /\ byPhone = "ok" /\ sip.trunkPhoneNumber # "")
           /\ Entrypoint(login, byPhone, "ok")
    \/ \E items \in SeqsUpTo(ItemNames, MaxItems), pickup \in PickupTimes :
           PlaceOrder(items, pickup)
    \/ \E outcome \in FetchOutcomes : PlaceOrderLoaded(outcome)
    \/ Menu
    \/ Knowledge
    \/ \E customer_phone \in ReservationPhones : MakeReservation(customer_phone)
    \/ TransferToManager
    \/ UserInputTranscribed(" hi ", TRUE)
    \/ SaveConversation
    \/ Shutdown

DegradedSpec == DegradedInit /\ [][DegradedNext]_vars

\* the module-level twilio_client (None when the credentials or the SDK are
\* missing) and TWILIO_FROM_NUMBER (None or empty when not configured)
TwilioClients == {None, "client"}

SenderNumbers == {None, "", "+15550111"}

\* twilio_client.messages.create returns or raises
ProviderOutcomes == {"ok", "raises"}

MediaLists == {<<>>, <<"https://cdn.example.com/menu-page1.jpg">>,
               <<"https://cdn.example.com/menu-page1.jpg",
                 "https://cdn.example.com/menu-page2.jpg">>}

\* what a call of send_sms or send_mms gave: its return value, or raised
Sent(value, contacted) == [value |-> value, contacted |-> contacted, raised |-> FALSE]

\* send_sms without the try/except around messages.create
sms_service_send_sms_Unguarded(twilio_client, TWILIO_FROM_NUMBER, from_number, provider) ==
    LET sender == IF from_number \notin {None, ""} THEN from_number
                  ELSE TWILIO_FROM_NUMBER
    IN  IF twilio_client = None THEN Sent(FALSE, FALSE)
        ELSE IF sender \in {None, ""} THEN Sent(FALSE, FALSE)
        ELSE IF provider = "ok" THEN Sent(TRUE, TRUE)
        ELSE [value |-> FALSE, contacted |-> TRUE, raised |-> TRUE]

\* services/sms_service.py send_sms
sms_service_send_sms(twilio_client, TWILIO_FROM_NUMBER, from_number, provider) ==
    LET sender == IF from_number \notin {None, ""} THEN from_number
                  ELSE TWILIO_FROM_NUMBER
    IN  IF twilio_client = None THEN Sent(FALSE, FALSE)
        ELSE IF sender \in {None, ""} THEN Sent(FALSE, FALSE)
        ELSE IF provider = "ok" THEN Sent(TRUE, TRUE)
        ELSE Sent(FALSE, TRUE)

\* services/sms_service.py send_mms
sms_service_send_mms(twilio_client, TWILIO_FROM_NUMBER, media_urls, from_number, provider) ==
    LET sender == IF from_number \notin {None, ""} THEN from_number
                  ELSE TWILIO_FROM_NUMBER
    IN  IF twilio_client = None THEN Sent(FALSE, FALSE)
        ELSE IF sender \in {None, ""} THEN Sent(FALSE, FALSE)
        ELSE IF media_urls = <<>> THEN Sent(FALSE, FALSE)
        ELSE IF provider = "ok" THEN Sent(TRUE, TRUE)
        ELSE Sent(FALSE, TRUE)

CallSendSms(client, sender, to_number, from_number, provider) ==
    /\ tool' = Called("send_sms",
                      [client |-> client, sender |-> sender, to |-> to_number,
                       from |-> from_number, provider |-> provider,
                       media_urls |-> <<>>],
                      sms_service_send_sms(client, sender, from_number, provider))
    /\ UNCHANGED <<room, http, pc, backend, sip, caller_phone, store_id, store_name,
                   api_session, menu_by_category, knowledge_base,
                   notification_phone, transfer_phone, call_transcript,
                   prefetch, nTools, events, convLog, loaded>>

CallSendMms(client, sender, to_number, media_urls, from_number, provider) ==
    /\ tool' = Called("send_mms",
                      [client |-> client, sender |-> sender, to |-> to_number,
                       from |-> from_number, provider |-> provider,
                       media_urls |-> media_urls],
                      sms_service_send_mms(client, sender, media_urls, from_number,
                                           provider))
    /\ UNCHANGED <<room, http, pc, backend, sip, caller_phone, store_id, store_name,
                   api_session, menu_by_category, knowledge_base,
                   notification_phone, transfer_phone, call_transcript,
                   prefetch, nTools, events, convLog, loaded>>

\* ClientSpec calls the Backend Client operations one at a time, on every
\* session state, store id, response and body.
\* SearchSpec calls search_menu_items with up to MaxItems queries on an empty
\* catalog, a two-item catalog and one with four items sharing a word
SearchCatalogs == { <<>>, <<OrangeChicken, FriedRice>>,
                    <<FriedRice, OrangeBeef, OrangeShrimp, OrangePork, OrangeChicken>> }

SearchQueries == {"ORANGE CHICKEN", "chicken", "orange", "chikn", "orange tofu",
                  "orange chicken rice", ""}

CallSearchMenuItems(data, item_names) ==
    /\ tool' = Called("search_menu_items",
                      [menu |-> AllItems(GroupInto(EmptyMenu, data)),
                       names |-> item_names],
                      search_menu_items(GroupInto(EmptyMenu, data), item_names).items)
    /\ UNCHANGED <<room, http, pc, backend, sip, caller_phone, store_id, store_name,
                   api_session, menu_by_category, knowledge_base,
                   notification_phone, transfer_phone, call_transcript,
                   prefetch, nTools, events, convLog, loaded>>

SearchInit ==
    /\ backend = [menu |-> <<OrangeChicken, FriedRice>>,
                  kb |-> [isList |-> TRUE, body |-> <<HoursEntry>>],
                  store |-> CHOOSE st \in BackendStores : st.transferPhone # None]
    /\ Connected
    /\ sip = [phoneNumber |-> "+15550100", trunkPhoneNumber |-> "+18005550100"]

SearchNext ==
    \E data \in SearchCatalogs, item_names \in SeqsUpTo(SearchQueries, MaxItems) :
        CallSearchMenuItems(data, item_names)

SearchSpec == SearchInit /\ [][SearchNext]_vars

\* on_participant_connected: a SIP participant joins the room.  The handler
\* assigns the entrypoint's local caller_phone, dialed_number and
\* twilio_call_sid, which from then on equal the participant's attributes
\* (sip); the entrypoint copies them into the Assistant when it constructs it,
\* a join after that leaves the Assistant as it is.
OnParticipantConnected(attrs) ==
    /\ pc \in {"start", "active"}
    /\ FirstSip(room.participants) = None
    /\ room' = [room EXCEPT !.participants = Append(@, Caller)]
    /\ sip' = attrs
    /\ UNCHANGED <<http, pc, backend, caller_phone, store_id, store_name,
                   api_session, menu_by_category, knowledge_base,
                   notification_phone, transfer_phone, call_transcript,
                   prefetch, tool, nTools, events, convLog, loaded>>

\* JoinSpec is the call of one store whose SIP participant is in the room
\* when the entrypoint connects, or joins later: entrypoint, orders, the
\* transcript and the shutdown callback.
JoinInit ==
    /\ backend = [menu |-> <<OrangeChicken, FriedRice>>,
                  kb |-> [isList |-> TRUE, body |-> <<HoursEntry>>],
                  store |-> CHOOSE st \in BackendStores : st.transferPhone # None]
    /\ \/ Connected /\ sip.phoneNumber # "" /\ sip.trunkPhoneNumber # ""
       \/ /\ ConnectedTo(None, [QuietRoom EXCEPT !.participants = <<Agent>>])
          /\ sip.phoneNumber = "" /\ sip.trunkPhoneNumber = ""

JoinNext ==
    \/ Start
    \/ \E attrs \in {a \in SipAttributes : a.phoneNumber # "" /\ a.trunkPhoneNumber # ""} :
           OnParticipantConnected(attrs)
    \/ Order
    \/ \E is_final \in BOOLEAN : UserInputTranscribed(" hi ", is_final)
    \/ Shutdown

JoinSpec == JoinInit /\ [][JoinNext]_vars

\* SessionSpec is the life of the backend session: the entrypoint with every
\* outcome of the three requests of fetch_store_info, an utterance, and the
\* shutdown callback.
SessionInit == Init

SessionNext ==
    \/ \E login \in FetchOutcomes, byPhone \in FetchOutcomes, details \in FetchOutcomes :
           Entrypoint(login, byPhone, details)
    \/ \E is_final \in BOOLEAN : UserInputTranscribed(" hi ", is_final)
    \/ Shutdown

SessionSpec == SessionInit /\ [][SessionNext]_vars

\* HangupSpec is a call in which the caller may hang up, so that the shutdown
\* callback runs, while end_call sleeps or place_order waits for the backend.
\* A request on the closed room API client fails.
HangupInit ==
    /\ backend = [menu |-> <<OrangeChicken, FriedRice>>,
                  kb |-> [isList |-> TRUE, body |-> <<HoursEntry>>],
                  store |-> CHOOSE st \in BackendStores : st.transferPhone # None]
    /\ Connected
    /\ sip = [phoneNumber |-> "+15550100", trunkPhoneNumber |-> "+18005550100"]

HangupNext ==
    \/ Entrypoint("ok", "ok", "ok")
    \/ \E speech \in {0, MaxSpeech} : EndCall(speech)
    \/ SecondPasses
    \/ \E reply \in {r \in ApiReplies : room.lk_api = "closed" => r = "error"} :
           EndCallListed(reply)
    \/ \E reply \in {r \in ApiReplies : room.lk_api = "closed" => r = "error"} :
           EndCallRemoved(reply)
    \/ Order
    \/ SaveAndCleanup

HangupSpec == HangupInit /\ [][HangupNext]_vars

\* CategoriesSpec calls get_menu_categories on every catalog whose categories
\* are among the names below
CategoryNames ==
    <<"Beef", "Chicken", "Drinks", "Extra Sauces", "Noodles", "Pork", "Rice",
      "SIDES", "Soup">>

\* sorted(keys): CategoryNames is in the order of Python's string comparison
sorted(keys) == SelectSeq(CategoryNames, LAMBDA c : c \in keys)

AddonKeywords == {"add-on", "side", "extra", "sauce", "drink", "beverage"}

\* any(keyword in cat_lower for keyword in [...])
IsAddon(category) ==
    \E keyword \in AddonKeywords : IsSubstring(keyword, Lower(category))

NoMenuCategories == "No menu categories available."

\* the summary: its first sentence, the names it lists, the remainder it
\* states (0 when it states none) and whether it mentions the add-ons
get_menu_categories(menu) ==
    LET cats == sorted({menu[i].category : i \in 1..Len(menu)})
        main_categories  == SelectSeq(cats, LAMBDA c : ~IsAddon(c))
        addon_categories == SelectSeq(cats, LAMBDA c : IsAddon(c))
    IN IF main_categories = <<>>
       THEN [kind |-> NoMenuCategories, featured |-> <<>>, remaining |-> 0,
             addons |-> FALSE]
       ELSE [kind |-> "Main categories", featured |-> FirstN(main_categories, 4),
             remaining |-> IF Len(main_categories) - 4 > 0
                           THEN Len(main_categories) - 4 ELSE 0,
             addons |-> addon_categories # <<>>]

\* a catalog with one item in each of the categories, last name first
CatalogOf(keys) ==
    LET cats == sorted(keys)
    IN [i \in 1..Len(cats) |->
           [category |-> cats[Len(cats) + 1 - i],
            items |-> <<[name |-> "Orange Chicken", price |-> 1295, id |-> "m1"]>>]]

CallGetMenuCategories(keys) ==
    /\ tool' = Called("get_menu_categories", [menu |-> CatalogOf(keys)],
                      get_menu_categories(CatalogOf(keys)))
    /\ menu_by_category' = CatalogOf(keys)
    /\ UNCHANGED <<room, http, pc, backend, sip, caller_phone, store_id, store_name,
                   api_session, knowledge_base,
                   notification_phone, transfer_phone, call_transcript,
                   prefetch, nTools, events, convLog, loaded>>

CategoriesInit == SearchInit

CategoriesNext ==
    \E keys \in SUBSET {CategoryNames[i] : i \in 1..Len(CategoryNames)} :
        CallGetMenuCategories(keys)

CategoriesSpec == CategoriesInit /\ [][CategoriesNext]_vars

\* PricesSpec calls get_item_prices, search_menu_items and the item lookup of
\* place_order with up to MaxItems names on an empty catalog, a two-item
\* catalog and two catalogs that hold one name in two categories
PriceCatalogs == { <<>>, <<OrangeChicken, FriedRice>>,
                   <<OrangeChicken, FriedRice, LunchChicken>>,
                   <<LunchChicken, OrangeChicken>> }

PriceNames == {"ORANGE CHICKEN", " Orange Chicken ", "Fried Rice", "Pizza"}

CallGetItemPrices(data, item_names) ==
    /\ tool' = Called("get_item_prices",
                      [menu |-> AllItems(GroupInto(EmptyMenu, data)),
                       names |-> item_names],
                      get_item_prices(GroupInto(EmptyMenu, data), item_names))
    /\ UNCHANGED <<room, http, pc, backend, sip, caller_phone, store_id, store_name,
                   api_session, menu_by_category, knowledge_base,
                   notification_phone, transfer_phone, call_transcript,
                   prefetch, nTools, events, convLog, loaded>>

\* place_order up to its order_items list
CallOrderItems(data, items) ==
    /\ tool' = Called("place_order",
                      [menu |-> AllItems(GroupInto(EmptyMenu, data)),
                       names |-> items],
                      order_items(Resolve(GroupInto(EmptyMenu, data), items)))
    /\ UNCHANGED <<room, http, pc, backend, sip, caller_phone, store_id, store_name,
                   api_session, menu_by_category, knowledge_base,
                   notification_phone, transfer_phone, call_transcript,
                   prefetch, nTools, events, convLog, loaded>>

PricesInit == SearchInit

PricesNext ==
    \E data \in PriceCatalogs, item_names \in SeqsUpTo(PriceNames, MaxItems) :
        \/ CallGetItemPrices(data, item_names)
        \/ CallSearchMenuItems(data, item_names)
        \/ CallOrderItems(data, item_names)

PricesSpec == PricesInit /\ [][PricesNext]_vars

\* KbSpec calls search_knowledge_base with no entry, one entry, or five and
\* more of the entries below as the knowledge base, in their order or reversed
KbEntries == << [question |-> "hours", answer |-> "11 to 9"],
                HoursEntry,
                [question |-> "when do you open", answer |-> "at 11"],
                [question |-> "when do you close", answer |-> "at 9"],
                [question |-> "what time is lunch", answer |-> "11 to 3"],
                [question |-> "open close time", answer |-> "11 and 9"],
                [question |-> "do you deliver", answer |-> "no"] >>

KbQueries == {"hours", "pizza", "open close time", ""}

Reversed(seq) == [i \in 1..Len(seq) |-> seq[Len(seq) + 1 - i]]

KnowledgeBases ==
    LET picks == {SelectSeq(KbEntries, LAMBDA e : e.question \in qs) :
                     qs \in {q \in SUBSET {KbEntries[i].question :
                                                i \in 1..Len(KbEntries)} :
                                Cardinality(q) <= 1 \/ Cardinality(q) >= 5}}
    IN picks \cup {Reversed(kb) : kb \in picks}

CallSearchKnowledgeBase(kb, query) ==
    /\ tool' = Called("search_knowledge_base", [kb |-> kb, query |-> query],
                      ReadKnowledgeBase(NewTool("search_knowledge_base", <<query>>,
                                                "", FALSE), kb).result)
    /\ knowledge_base' = kb
    /\ UNCHANGED <<room, http, pc, backend, sip, caller_phone, store_id, store_name,
                   api_session, menu_by_category,
                   notification_phone, transfer_phone, call_transcript,
                   prefetch, nTools, events, convLog, loaded>>

KbInit ==
    /\ backend = [menu |-> <<OrangeChicken, FriedRice>>,
                  kb |-> [isList |-> TRUE, body |-> <<HoursEntry>>],
                  store |-> CHOOSE st \in BackendStores : st.transferPhone # None]
    /\ Connected
    /\ sip = [phoneNumber |-> "+15550100", trunkPhoneNumber |-> "+18005550100"]

KbNext ==
    \E kb \in KnowledgeBases, query \in KbQueries : CallSearchKnowledgeBase(kb, query)

KbSpec == KbInit /\ [][KbNext]_vars

\* SmsSpec calls the SMS service under every configuration
SmsInit ==
    /\ backend = [menu |-> <<OrangeChicken, FriedRice>>,
                  kb |-> [isList |-> TRUE, body |-> <<HoursEntry>>],
                  store |-> CHOOSE st \in BackendStores : st.transferPhone # None]
    /\ Connected
    /\ sip = [phoneNumber |-> "+15550100", trunkPhoneNumber |-> "+18005550100"]

SmsNext ==
    \E client \in TwilioClients, sender \in SenderNumbers,
       to_number \in {"+15550100", "+16182581388"},
       from_number \in {None, "+15550142"}, provider \in ProviderOutcomes :
        \/ CallSendSms(client, sender, to_number, from_number, provider)
        \/ \E media_urls \in MediaLists :
              CallSendMms(client, sender, to_number, media_urls, from_number, provider)

SmsSpec == SmsInit /\ [][SmsNext]_vars

ClientInit ==
    /\ backend \in [menu : BackendMenus \cup {MalformedMenu}, kb : BackendKBs,
                     store : BackendStores]
    /\ Connected
    /\ sip = [phoneNumber |-> "+15550100", trunkPhoneNumber |-> "+18005550100"]

ClientNext ==
    \/ \E login \in FetchOutcomes, byPhone \in FetchOutcomes, details \in FetchOutcomes :
           CallFetchStoreInfo(login, byPhone, details)
    \/ \E store \in StoreIds, session \in Sessions, outcome \in FetchOutcomes :
           \/ CallLoadMenu(store, session, outcome)
           \/ CallLoadKnowledgeBase(store, session, outcome)
           \/ CallLoadStoreDetails(store, session, outcome)
           \/ CallCreateConversation(store, session, outcome)

ClientSpec == ClientInit /\ [][ClientNext]_vars

-----------------------------------------------------------------------------
(* Properties of the order tool *)

PlaceOrderEnded == tool.name = "place_order" /\ tool.pc \in {"done", "raised"}

NoValidItems == "No valid items found in the order."
OrderApology ==
    "I'm sorry, there was an issue placing your order. Please try calling back."
OrderConfirmed == "Perfect! Your order is confirmed"

\* C1: an invocation of place_order in which at least one requested item
\* resolves against the menu has issued exactly one POST /orders request when
\* it ends; one that looked the items up and resolved none has returned
\* "No valid items found in the order." and issued no order request.
C1_OneOrderRequestPerResolvedOrder ==
    PlaceOrderEnded =>
        IF tool.found # <<>>
        THEN tool.posts = 1
        ELSE /\ tool.posts = 0
             /\ tool.read = "menu" => tool.result.kind = NoValidItems

\* C9: when the order request is answered with a status other than 200 and
\* 201, place_order has returned the apology and no SMS was sent.
C9_FailedOrderSendsNoSms ==
    (tool.name = "place_order" /\ tool.status \notin {0, 200, 201}) =>
        /\ tool.pc = "done"
        /\ tool.result.kind = OrderApology
        /\ tool.sms = <<>>

C9_Witness ==
    /\ tool.name = "place_order" /\ tool.pc = "done" /\ tool.status = 500
    /\ tool.posts = 1 /\ tool.result.kind = OrderApology

\* C10: once the order request is answered 200 or 201, place_order returns
\* the confirmation naming the resolved items, their total and the pickup
\* time, whatever became of the two SMS, and one order request was issued.
C10_SmsFailureKeepsConfirmation ==
    (tool.name = "place_order" /\ tool.status \in {200, 201}) =>
        /\ tool.pc = "done"
        /\ tool.result.kind = OrderConfirmed
        /\ tool.result.items = tool.found
        /\ tool.result.items = Names(tool.order.items)
        /\ tool.result.total = Fmt2(SumSeq(Prices(tool.order.items)))
        /\ tool.result.pickup = (IF tool.pickup = "" THEN DefaultPickup ELSE tool.pickup)
        /\ tool.posts = 1
        /\ Len(tool.sms) = 2

C10_Witness ==
    /\ tool.name = "place_order" /\ tool.status = 201
    /\ tool.result.kind = OrderConfirmed
    /\ Len(tool.sms) = 2 /\ ~tool.sms[1].ok /\ tool.sms[1].contacted /\ ~tool.sms[2].ok

\* the requested names that are the name of an item the backend serves,
\* compared case-insensitively, in request order
MatchedNames(names) ==
    SelectSeq(names, LAMBDA n : \E k \in 1..Len(backend.menu) :
                                    Lower(backend.menu[k].name) = Lower(n))

OrderSubmitted == tool.name = "place_order" /\ tool.posts = 1

\* C12: the order place_order submits holds, in request order, one entry of
\* quantity 1 for each requested name that matches a menu item name
\* case-insensitively, with that item's name, price and id, and nothing else;
\* its total is the sum of those prices, and the confirmation names exactly
\* those items and that total.
C12_OrderHoldsTheMatchedItems ==
    OrderSubmitted =>
        LET entries == tool.order.items
            matched == MatchedNames(tool.args)
        IN /\ Len(entries) = Len(matched)
           /\ \A i \in 1..Len(entries) :
                 /\ Lower(entries[i].name) = Lower(matched[i])
                 /\ entries[i].quantity = 1
                 /\ \E k \in 1..Len(backend.menu) :
                       /\ backend.menu[k].name = entries[i].name
                       /\ backend.menu[k].basePrice = entries[i].price
                       /\ backend.menu[k].id = entries[i].id
           /\ tool.order.total = Fmt2(SumSeq([i \in 1..Len(entries) |-> entries[i].price]))
           /\ tool.result.kind = OrderConfirmed =>
                 /\ tool.result.items = [i \in 1..Len(entries) |-> entries[i].name]
                 /\ tool.result.total = tool.order.total

C12_Witness ==
    /\ OrderSubmitted /\ tool.result.kind = OrderConfirmed
    /\ tool.args = <<"FRIED RICE", "Pizza", "orange chicken">>
    /\ tool.result.items = <<"Fried Rice", "Orange Chicken">>
    /\ tool.result.total = <<21, 98>>

\* C13: no two order requests of one call carry the same items for the same
\* customer name.
C13_NoSecondOrderForTheSameItems ==
    \A i, j \in 1..Len(http.orders) :
        (/\ http.orders[i].items = http.orders[j].items
         /\ http.orders[i].customerName = http.orders[j].customerName) => i = j

\* C14: no tool invocation ends with an exception leaving the tool: whatever
\* fails, the tool returns a string.
C14_NoToolRaises == tool.pc # "raised"

\* C11: every message sent for the customer by place_order or
\* send_menu_pictures goes to the caller's own number, and place_order sends
\* the merchant notification only when the store has a notification phone,
\* and then to that number.
C11_MessagesGoToCallerAndStore ==
    (tool.name \in {"place_order", "send_menu_pictures"} /\ tool.sms # <<>>) =>
        /\ tool.sms[1].to = caller_phone
        /\ Len(tool.sms) = 2 =>
              /\ notification_phone # None
              /\ tool.sms[2].to = notification_phone

-----------------------------------------------------------------------------
(* Properties of the call without a store *)

LoginFailed == http.logins = 1 /\ http.loginStatus # "ok"

\* no request but the login has been sent to the backend: none by the
\* entrypoint, no prefetch, none by the tool invocation, no order and no
\* conversation posted
NoRequestAfterLogin ==
    /\ http.lookups = 0
    /\ http.orders = <<>>
    /\ prefetch.state = "none"
    /\ tool.requests = 0 /\ tool.posts = 0
    /\ \A i \in 1..Len(convLog) : ~convLog[i].posted

\* the tool has not raised, and what it returned says that the backend, the
\* item, the category or the information is not available
ToolSaysUnavailable ==
    /\ tool.pc # "raised"
    /\ tool.pc = "done" =>
          CASE tool.name \in {"place_order", "make_reservation"} ->
                  tool.result.kind = "Error: API session not available"
            [] tool.name = "get_menu_by_category" ->
                  tool.result.kind = "Category not available"
            [] tool.name = "search_menu_items" ->
                  \A i \in 1..Len(tool.result.items) :
                      tool.result.items[i].kind = "Sorry, couldn't find"
            [] tool.name = "get_item_prices" ->
                  /\ tool.result.items = <<>>
                  /\ tool.args # <<>> => tool.result.kind = "Sorry, I couldn't find"
            [] tool.name = "search_knowledge_base" ->
                  tool.result.kind = "I don't have that information. Please call us directly."
            [] tool.name = "save_conversation" ->
                  tool.result.kind \in {"No conversation data to save",
                                        "Missing required information to save conversation"}
            [] OTHER -> TRUE

C17_UnresolvedStoreUsesDefaultName ==
    (pc # "start" /\ store_id = "") =>
        /\ store_name = "our restaurant"
        /\ tool.pc # "raised"

-----------------------------------------------------------------------------
(* Properties of the call tools *)

\* the requests of one kind the tool invocation has made
CallsOf(op) == {i \in 1..Len(tool.calls) : tool.calls[i].op = op}

\* C18: transfer_to_manager makes at most one transfer request; it makes it
\* only with a transfer number configured and after a lookup that listed a
\* SIP participant; the request names that participant and the configured
\* number with one "tel:" prefix; the result is "Transferring you now. Please
\* hold." exactly when the request completed, and otherwise the string of the
\* step that failed.
C18_TransferRequestedOnceToTheManager ==
    tool.name = "transfer_to_manager" =>
        LET reqs   == CallsOf("transfer_sip_participant")
            number == IF startswith(transfer_phone, "tel:")
                      THEN SubSeq(transfer_phone, 5, Len(transfer_phone))
                      ELSE transfer_phone
        IN  /\ Cardinality(reqs) <= 1
            /\ Cardinality(CallsOf("list_participants")) <= 1
            /\ \A i \in reqs :
                  /\ transfer_phone \notin {None, ""}
                  /\ i = 2 /\ tool.calls[1].op = "list_participants" /\ tool.calls[1].ok
                  /\ \E k \in 1..Len(tool.calls[1].participants) :
                        /\ tool.calls[1].participants[k].kind = "SIP"
                        /\ tool.calls[1].participants[k].identity = tool.calls[i].identity
                  /\ tool.calls[i].transfer_to = "tel:" \o number
                  /\ ~startswith(number, "tel:")
            /\ tool.pc = "done" =>
                  /\ tool.result.kind = Transferring
                        <=> \E i \in reqs : tool.calls[i].ok
                  /\ tool.result.kind # Transferring =>
                        tool.result.kind =
                            IF transfer_phone \in {None, ""} THEN NoManagerNumber
                            ELSE IF /\ tool.calls[1].ok
                                    /\ FirstSip(tool.calls[1].participants) = None
                                 THEN NoActiveCall
                                 ELSE TransferApology

C18_Witness ==
    /\ tool.name = "transfer_to_manager" /\ tool.pc = "done"
    /\ transfer_phone = "tel:+16182581388"
    /\ tool.result.kind = Transferring
    /\ tool.calls[2] = ApiCall("transfer_sip_participant", Caller.identity,
                               "tel:+16182581388", TRUE, <<>>)
    /\ room.participants = <<Observer, SecondLine>>

\* C19: end_call sleeps, then looks the participants up, then removes: no
\* request is made before the delay has elapsed, the lookup comes first, at
\* most one SIP participant is removed, and the result is "Call ended.
\* Goodbye!" exactly when one was removed, "Call ending..." otherwise.
C19_EndCallDelaysLooksUpRemovesOne ==
    tool.name = "end_call" =>
        LET removals == {i \in CallsOf("remove_participant") : tool.calls[i].ok}
        IN  /\ tool.calls # <<>> => tool.waited = EndCallDelay
            /\ Len(tool.calls) <= 2
            /\ tool.calls # <<>> => tool.calls[1].op = "list_participants"
            /\ \A i \in CallsOf("remove_participant") :
                  /\ i = 2 /\ tool.calls[1].ok
                  /\ \E k \in 1..Len(tool.calls[1].participants) :
                        /\ tool.calls[1].participants[k].kind = "SIP"
                        /\ tool.calls[1].participants[k].identity = tool.calls[i].identity
            /\ Cardinality(removals) <= 1
            /\ tool.pc = "done" =>
                  /\ tool.result.kind \in {CallEnded, CallEnding}
                  /\ tool.result.kind = CallEnded <=> removals # {}

C19_Witness ==
    /\ tool.name = "end_call" /\ tool.pc = "done"
    /\ tool.waited = EndCallDelay
    /\ tool.result.kind = CallEnded
    /\ tool.calls[2] = ApiCall("remove_participant", Caller.identity, "", TRUE, <<>>)
    /\ room.participants = <<Observer, SecondLine>>

\* C20: end_call never removes the SIP participant while the goodbye is
\* still being spoken, however long the goodbye is.
C20_GoodbyeFinishedBeforeHangUp ==
    [][(tool.name = "end_call" /\ tool.pc = "remove_participant"
        /\ tool'.result.kind = CallEnded) => room.speech = 0]_vars

\* C21: once end_call has returned no SIP participant is left in the room,
\* also when list_participants or remove_participant has failed. (A return of
\* "Call ending..." means this invocation removed nobody, so a SIP participant
\* in the room now was there when end_call was invoked.)
C21_EndCallLeavesNoSipLeg ==
    (tool.name = "end_call" /\ tool.pc = "done" /\ tool.result.kind = CallEnding)
        => FirstSip(room.participants) = None

-----------------------------------------------------------------------------
(* Properties of make_reservation *)

ReservationConfirmed == "Perfect! Your reservation is confirmed."

ReservationApology ==
    "I'm sorry, I couldn't complete your reservation. Please try calling back."

\* C22: make_reservation posts once when the call has a session and a store
\* id and not at all otherwise; a 200 or 201 gives the confirmation string
\* and at most one SMS, to the phone given or else the caller's; any other
\* status gives the apology and no SMS.
C22_ReservationPostedOnceAndConfirmed ==
    tool.name = "make_reservation" =>
        /\ tool.posts = (IF api_session # "none" /\ store_id # "" THEN 1 ELSE 0)
        /\ tool.status \in {200, 201} =>
              /\ tool.pc = "done" /\ tool.result.kind = ReservationConfirmed
              /\ Len(tool.sms) <= 1
              /\ \A i \in 1..Len(tool.sms) :
                    tool.sms[i].to = (IF tool.args[1] # None THEN tool.args[1]
                                      ELSE caller_phone)
        /\ tool.status \notin {0, 200, 201} =>
              /\ tool.pc = "done" /\ tool.result.kind = ReservationApology
              /\ tool.sms = <<>>

-----------------------------------------------------------------------------
(* Properties of the SMS service *)

\* the client and a sender number (the argument, else the default) are there
SmsConfigured ==
    /\ tool.args.client # None
    /\ \/ tool.args.from \notin {None, ""}
       \/ tool.args.sender \notin {None, ""}

\* C23: send_sms and send_mms never raise; without the client or a sender
\* number (send_mms also without media) they return False and do not contact
\* the provider; otherwise they contact it and return True exactly when the
\* provider call succeeded.
C23_SmsReturnsBooleanNeverRaises ==
    tool.name \in {"send_sms", "send_mms"} =>
        LET r  == tool.result.items
            go == /\ SmsConfigured
                  /\ tool.name = "send_mms" => tool.args.media_urls # <<>>
        IN  /\ ~r.raised
            /\ r.value \in BOOLEAN
            /\ ~go => (~r.value /\ ~r.contacted)
            /\ go => (r.contacted /\ (r.value <=> tool.args.provider = "ok"))

C23_Witness ==
    /\ tool.name = "send_mms"
    /\ tool.args.client # None /\ tool.args.sender = "" /\ tool.args.from = "+15550142"
    /\ tool.args.provider = "raises" /\ Len(tool.args.media_urls) = 2
    /\ tool.result.items = Sent(FALSE, TRUE)

-----------------------------------------------------------------------------
(* Properties of the save_conversation tool *)

\* the reason string for the first precondition of save_conversation that
\* does not hold
FirstMissing ==
    IF call_transcript = <<>> THEN "No conversation data to save"
    ELSE IF store_id = "" \/ caller_phone = ""
    THEN "Missing required information to save conversation"
    ELSE "API session not available"

\* C24: save_conversation hands the transcript, the store id and the caller
\* phone to create_conversation only when all of them and a session are
\* there; otherwise it returns the reason of the first missing one and sends
\* nothing; when create_conversation reports an error it returns the failure
\* string; no step of the tool changes the transcript.
C24_SaveConversationNeedsItsData ==
    [][/\ (nTools' = nTools + 1 /\ tool'.name = "save_conversation") =>
             /\ call_transcript' = call_transcript
             /\ IF /\ call_transcript # <<>> /\ store_id # ""
                   /\ caller_phone # "" /\ api_session # "none"
                THEN /\ tool'.pc = "post"
                     /\ Len(convLog') = Len(convLog) + 1
                     /\ convLog'[Len(convLog')].by = "tool"
                     /\ convLog'[Len(convLog')].messages = call_transcript
                     /\ convLog'[Len(convLog')].storeId = store_id
                     /\ convLog'[Len(convLog')].customerPhone = caller_phone
                ELSE /\ tool'.pc = "done" /\ tool'.result.kind = FirstMissing
                     /\ tool'.requests = 0 /\ convLog' = convLog
       /\ (tool.name = "save_conversation" /\ tool.pc = "post" /\ tool' # tool) =>
             /\ call_transcript' = call_transcript
             /\ tool'.pc = "done"
             /\ tool'.result.kind \in {"Conversation saved successfully",
                                       "Failed to save conversation"}
             /\ tool'.result.kind = "Failed to save conversation"
                   <=> \E i \in 1..Len(convLog) :
                          /\ convLog[i].by = "tool" /\ convLog[i].result = "pending"
                          /\ convLog'[i].result = "error"
      ]_vars

C24_Witness ==
    /\ tool.name = "save_conversation" /\ tool.pc = "done"
    /\ tool.result.kind = "Failed to save conversation"
    /\ tool.requests = 1
    /\ api_session = "open"
    /\ Len(call_transcript) = MaxEvents
    /\ \E i \in 1..Len(convLog) :
          /\ convLog[i].by = "tool" /\ convLog[i].result = "error"
          /\ convLog[i].messages # <<>>

-----------------------------------------------------------------------------
(* Properties of the dialogue start *)

Greeted == \E i \in 1..Len(room.replies) : room.replies[i].what = "greeting"

\* C25: in every execution of the entrypoint the dialogue session is started
\* and the greeting is issued, whatever the prefetch task does.
C25_GreetingWhateverThePrefetch == <>(room.dialogue = "greeted" /\ Greeted)

C25_Witness ==
    /\ room.dialogue = "greeted" /\ Greeted
    /\ prefetch.state = "running" /\ ~prefetch.menuGot /\ ~prefetch.kbGot

\* C26: session.generate_reply is never called after the caller has
\* disconnected.
C26_NoReplyAfterDisconnect ==
    \A i \in 1..Len(room.replies) : room.replies[i].connected

-----------------------------------------------------------------------------
(* Properties of search_menu_items *)

\* twice the number of words of the query
Full(term) == 2 * Cardinality(Words(Strip(Lower(term))))

\* the word-overlap ratio of the query and the item name, plus 0.5 when the
\* query is a substring of the name, times Full(term); a query without
\* words has no ratio and scores nothing
OverlapScore(term, name) ==
    LET q == Strip(Lower(term))
    IN 2 * Cardinality(Words(q) \cap Words(Lower(name)))
         + (IF IsSubstring(q, Lower(name)) /\ Words(q) # {}
            THEN Cardinality(Words(q)) ELSE 0)

\* C27: for each query, an item of the same name up to case is reported as
\* found; otherwise the top-scoring item is reported as found exactly when its
\* score is at least 0.8, and it is the one reported; otherwise at most 3
\* suggestions are returned, in non-increasing score order; no order is sent.
C27_SearchFindsExactOrConfident ==
    tool.name = "search_menu_items" =>
        /\ tool.posts = 0 /\ http.orders = <<>>
        /\ Len(tool.result.items) = Len(tool.args.names)
        /\ \A k \in 1..Len(tool.args.names) :
              LET term   == tool.args.names[k]
                  r      == tool.result.items[k]
                  menu   == tool.args.menu
                  exact  == {i \in 1..Len(menu) : Lower(menu[i].name) = Lower(term)}
                  scores == {OverlapScore(term, menu[i].name) : i \in 1..Len(menu)}
                  top    == CHOOSE x \in scores : \A y \in scores : y <= x
              IN  IF exact # {}
                  THEN /\ r.kind = "Found"
                       /\ Lower(r.items[1].name) = Lower(term)
                  ELSE /\ r.kind = "Found"
                             <=> /\ menu # <<>> /\ Full(term) > 0
                                 /\ 10 * top >= 8 * Full(term)
                       /\ r.kind = "Found" =>
                             OverlapScore(term, r.items[1].name) = top
                       /\ r.kind # "Found" =>
                             /\ Len(r.items) <= 3
                             /\ \A i \in 1..Len(r.items), j \in 1..Len(r.items) :
                                   i < j => OverlapScore(term, r.items[i].name)
                                              >= OverlapScore(term, r.items[j].name)

C27_Witness ==
    /\ tool.name = "search_menu_items"
    /\ Len(tool.args.menu) = 5
    /\ tool.args.names = <<"orange chicken rice", "orange">>
    /\ tool.result.items[1].kind = "Did you mean one of these"
    /\ Len(tool.result.items[1].items) = 3
    /\ tool.result.items[1].items[1].name = "Orange Chicken"
    /\ tool.result.items[2].kind = "Found"

\* C28: a query that equals no item name and scores below 0.8, "chikn" with
\* "Orange Chicken" in the catalog, gets suggestions that include that item.
C28_NearMissGetsSuggestions ==
    tool.name = "search_menu_items" =>
        \A k \in 1..Len(tool.args.names) :
            (/\ tool.args.names[k] = "chikn"
             /\ \E i \in 1..Len(tool.args.menu) :
                   tool.args.menu[i].name = "Orange Chicken")
            => /\ tool.result.items[k].kind = "Did you mean one of these"
               /\ \E i \in 1..Len(tool.result.items[k].items) :
                     tool.result.items[k].items[i].name = "Orange Chicken"

-----------------------------------------------------------------------------
(* Properties of search_knowledge_base *)

\* the entries of the knowledge base that the search returned
Returned29 ==
    {i \in 1..Len(tool.args.kb) :
        \E k \in 1..Len(tool.result.items.items) :
            /\ tool.result.items.items[k].question = tool.args.kb[i].question
            /\ tool.result.items.items[k].answer = tool.args.kb[i].answer}

\* C29: what search_knowledge_base returns are entries of the knowledge base
\* that score at least 50, at most 5 of them, in non-increasing score order,
\* and no entry left out scores higher than one returned; the knowledge base
\* is the same after the search.
C29_KnowledgeSearchRanksAndCaps ==
    tool.name = "search_knowledge_base" =>
        LET kb    == tool.args.kb
            query == tool.args.query
            out   == tool.result.items.items
        IN  /\ knowledge_base = kb
            /\ Len(out) <= 5
            /\ Cardinality(Returned29) = Len(out)
            /\ \A i \in Returned29 : EntryScore(kb[i], query) >= 50
            /\ \A k \in 1..Len(out) :
                  \E i \in 1..Len(kb) :
                      /\ out[k].question = kb[i].question
                      /\ out[k].answer = kb[i].answer
                      /\ out[k].score = EntryScore(kb[i], query)
            /\ \A k \in 1..Len(out), l \in 1..Len(out) :
                  k < l => out[k].score >= out[l].score
            /\ \A i \in (1..Len(kb)) \ Returned29, j \in Returned29 :
                  EntryScore(kb[i], query) <= EntryScore(kb[j], query)
            /\ out = <<>> => \A i \in 1..Len(kb) : EntryScore(kb[i], query) < 50

C29_Witness ==
    /\ tool.name = "search_knowledge_base"
    /\ tool.args.kb = Reversed(KbEntries) /\ tool.args.query = "hours"
    /\ [k \in 1..5 |-> tool.result.items.items[k].question]
          = <<"hours", "What are your hours?", "open close time",
              "what time is lunch", "when do you close">>
    /\ Len(tool.result.items.items) = 5

\* C30: the step in which search_knowledge_base returns leaves one of its
\* three texts, each non-empty: the no-information sentence exactly when the
\* knowledge base is empty at that moment (never loaded, or the load failed),
\* the no-specific-info sentence naming the query when no entry reaches the
\* threshold, or the questions and answers found, of which there is at least
\* one.
C30_KnowledgeSearchAlwaysSpeaks ==
    [][(tool'.name = "search_knowledge_base" /\ tool'.pc = "done" /\ tool' # tool) =>
        /\ tool'.result.kind \in
              {"I don't have that information. Please call us directly.",
               "I don't have specific info about", "Q/A"}
        /\ tool'.result.kind = "Q/A" <=> tool'.result.items # <<>>
        /\ tool'.result.kind = "I don't have specific info about"
              => tool'.result.notFound = tool'.args
        /\ tool'.result.kind = "I don't have that information. Please call us directly."
              <=> knowledge_base' = <<>>]_vars

C30_Witness ==
    /\ tool.name = "search_knowledge_base" /\ tool.pc = "done"
    /\ tool.ownLoadDone /\ knowledge_base # <<>>
    /\ tool.args = <<"pizza">>
    /\ tool.result.kind = "I don't have specific info about"

-----------------------------------------------------------------------------
(* Properties of get_menu_categories *)

\* the categories of the catalog the summary was made from
CategoriesOf31 == {tool.args.menu[i].category : i \in 1..Len(tool.args.menu)}
MainOf31  == {c \in CategoriesOf31 : ~IsAddon(c)}

\* C31: the summary of get_menu_categories names at most 4 categories, all
\* of them main ones, states the remainder |main| - 4 exactly when it is
\* positive, mentions the add-ons exactly when the catalog has an add-on
\* category, and is "No menu categories available." when the catalog has no
\* category.
C31_SummaryNamesFourCountsRestMentionsAddons ==
    tool.name = "get_menu_categories" =>
        LET out == tool.result.items
        IN  /\ Len(out.featured) <= 4
            /\ \A i \in 1..Len(out.featured) : out.featured[i] \in MainOf31
            /\ out.remaining = (IF Cardinality(MainOf31) > 4
                                THEN Cardinality(MainOf31) - 4 ELSE 0)
            /\ out.addons <=> (CategoriesOf31 \ MainOf31 # {})
            /\ CategoriesOf31 = {} => out.kind = NoMenuCategories

-----------------------------------------------------------------------------
(* Properties of get_item_prices *)

\* the trimmed name equals a menu item name ignoring case
OnMenu32(name) ==
    \E i \in 1..Len(tool.args.menu) :
        Lower(tool.args.menu[i].name) = Lower(Strip(name))

\* the amount a formatted price stands for, in cents
Cents(price) == 100 * price[1] + price[2]

\* C32: get_item_prices prices a requested name exactly when the trimmed name
\* equals a menu item name ignoring case, lists every other name as not found,
\* and gives a total exactly when more than one item was found, equal to the
\* sum of the prices it lists.
C32_PricesMatchTrimmedNamesIgnoringCase ==
    tool.name = "get_item_prices" =>
        LET out   == tool.result.items
            names == tool.args.names
        IN  /\ out.notFound = SelectSeq(names, LAMBDA n : ~OnMenu32(n))
            /\ Len(out.items) = Len(SelectSeq(names, OnMenu32))
            /\ out.total =
                  (IF Len(out.items) > 1
                   THEN Fmt2(SumSeq([i \in 1..Len(out.items) |-> Cents(out.items[i].price)]))
                   ELSE Fmt2(0))

\* what place_order charges for a name on the catalog the tool was called with
Charged40(name) ==
    order_items(Resolve(<<[category |-> "all", items |-> tool.args.menu]>>,
                        <<name>>))[1].price

\* C40: every price get_item_prices lists and every price of an exact-name
\* match of search_menu_items is the price place_order charges for that
\* name, whatever the catalog.
C40_QuotedPriceIsChargedPrice ==
    /\ tool.name = "get_item_prices" =>
          \A i \in 1..Len(tool.result.items.items) :
              tool.result.items.items[i].price
                  = Fmt2(Charged40(tool.result.items.items[i].name))
    /\ tool.name = "search_menu_items" =>
          \A k \in 1..Len(tool.result.items) :
              LET r == tool.result.items[k]
              IN (r.kind = "Found" /\ Lower(r.items[1].name) = Strip(Lower(r.term)))
                     => r.items[1].price = Charged40(r.items[1].name)

-----------------------------------------------------------------------------
(* Properties of the knowledge-base and menu loads *)

\* C33: over the call the knowledge-base endpoint is requested at most once,
\* by the prefetch and all search_knowledge_base invocations together.
C33_KnowledgeBaseRequestedAtMostOnce == http.kbRequests <= 1

\* C34: no step of the call replaces a non-empty menu catalog or a non-empty
\* knowledge base by an empty one.
C34_LoadedDataStaysLoaded ==
    [][/\ menu_by_category # EmptyMenu => menu_by_category' # EmptyMenu
       /\ knowledge_base # <<>> => knowledge_base' # <<>>]_vars

-----------------------------------------------------------------------------
(* Properties of the caller's numbers *)

\* C35: once the entrypoint has passed its initial wait, a SIP participant in
\* the room that carries a caller number and a dialed number has given the
\* session its caller phone and its store (by the dialed number, when the
\* login and the lookup succeeded), and every order posted and every
\* conversation record carries that caller number.
C35_SessionHasTheSipParticipantsNumbers ==
    (/\ pc # "start" /\ FirstSip(room.participants) # None
     /\ sip.phoneNumber # "" /\ sip.trunkPhoneNumber # "")
        => /\ caller_phone = sip.phoneNumber
           /\ http.logins = 1
           /\ \A i \in 1..Len(http.orders) :
                 http.orders[i].customerPhone = sip.phoneNumber
           /\ \A i \in 1..Len(convLog) :
                 convLog[i].customerPhone = sip.phoneNumber

-----------------------------------------------------------------------------
(* Properties of the shutdown callback's cleanup *)

\* the save attempts of the shutdown callback that have not returned: the
\* requests it has sent and that are not answered
PendingShutdownSaves(log) ==
    {i \in 1..Len(log) : /\ log[i].by = "shutdown" /\ log[i].posted
                         /\ log[i].result = "pending"}

\* C36: when the shutdown callback has run, the backend session is not open,
\* the room API client is closed and the callback's save attempt has
\* returned; and after the entrypoint no step closes the session or the room
\* API client but the one that ends the callback.
C36_ClientsClosedAfterTheSaveReturned ==
    [][/\ pc' = "done" => /\ api_session' # "open"
                          /\ room'.lk_api = "closed"
                          /\ PendingShutdownSaves(convLog') = {}
       /\ (\/ room'.lk_api # room.lk_api
           \/ pc # "start" /\ api_session' # api_session)
             => pc' = "done" /\ PendingShutdownSaves(convLog') = {}]_vars

C36_Witness ==
    /\ pc = "done" /\ api_session = "closed" /\ room.lk_api = "closed"
    /\ \E i \in 1..Len(convLog) :
          convLog[i].by = "shutdown" /\ convLog[i].posted /\ convLog[i].result = "error"

\* C37: the session fetch_store_info creates is closed at most once; it is
\* closed inside fetch_store_info exactly when no session is handed to the
\* call, an open session has never been closed, and once the shutdown
\* callback has run every session created has been closed once and none is
\* open.
C37_SessionClosedExactlyOnce ==
    /\ http.closes <= http.sessions
    /\ (pc # "start" /\ http.sessions = 1 /\ api_session = "none") => http.closes = 1
    /\ api_session = "open" => http.closes = 0
    /\ pc = "done" => http.closes = http.sessions /\ api_session # "open"

C37_Witness ==
    /\ pc = "done" /\ http.sessions = 1 /\ http.closes = 1
    /\ store_id = "" /\ api_session = "closed"

\* C38: a tool sends a request of the room API only while the room API
\* client is open, and it starts a load or a post on the backend session, or
\* fails in doing so, only while the session has not been closed.
C38_NoRequestOnAClosedClient ==
    [][/\ Len(tool'.calls) > Len(tool.calls) => room.lk_api = "open"
       /\ (\/ tool'.posts > tool.posts
           \/ tool'.menuFetches > tool.menuFetches
           \/ tool'.kbFetches > tool.kbFetches
           \/ /\ tool'.pc = "raised" /\ tool.pc # "raised"
              /\ tool'.result.kind = "RuntimeError")
             => api_session # "closed"]_vars

\* C39: every conversation record sent to the backend, by the tool or by the
\* shutdown callback, carries a store id and a caller phone.
C39_NoRecordWithoutStoreOrCaller ==
    \A i \in 1..Len(convLog) :
        convLog[i].posted => convLog[i].storeId # "" /\ convLog[i].customerPhone # ""

-----------------------------------------------------------------------------
(* Properties of the Backend Client *)

ClientResult == tool.result.items

\* the request of a loader failed: no usable session, or no 200 response
ClientFailed == tool.args.session # "open" \/ tool.args.outcome # "ok"

NoStore == [store_id |-> None, store_name |-> "Unknown Restaurant", session |-> "none"]

\* every item of the response is in the map, under its category
CompleteMenu(map, data) ==
    /\ Len(AllItems(map)) = Len(data)
    /\ \A k \in 1..Len(data) :
          \E c \in 1..Len(map) :
             /\ map[c].category = data[k].category
             /\ \E i \in 1..Len(map[c].items) :
                   map[c].items[i] = [name |-> data[k].name, price |-> data[k].basePrice,
                                      id |-> data[k].id]

\* what C15 says of the four loaders: the empty or error value on every
\* failure, and load_menu returns the complete map or the empty one
LoadersReturnEmptyOnFailure ==
    /\ tool.name = "load_menu" =>
          /\ ClientFailed => ClientResult = EmptyMenu
          /\ ClientResult = EmptyMenu \/ CompleteMenu(ClientResult, backend.menu)
    /\ tool.name = "load_knowledge_base" =>
          /\ ClientFailed => ClientResult = <<>>
          /\ ~backend.kb.isList => ClientResult = <<>>
    /\ (tool.name = "load_store_details" /\ ClientFailed) =>
          ClientResult = [notification_phone |-> None, transfer_phone |-> None]
    /\ (tool.name = "create_conversation" /\ ClientFailed) =>
          ClientResult = FALSE

\* C15 as stated: fetch_store_info returns (None, name, None) whenever one of
\* its requests is not answered 200, and the loaders their empty value.
C15_ClientReturnsEmptyOnFailure ==
    /\ LoadersReturnEmptyOnFailure
    /\ (/\ tool.name = "fetch_store_info"
        /\ \/ tool.args.login # "ok"
           \/ tool.args.byPhone # "ok"
           \/ tool.args.details # "ok") => ClientResult = NoStore

\* C15 as amended: fetch_store_info returns (None, name, None) when the login
\* is not answered 200 or a request raises; a by-phone lookup that is not
\* answered 200 gives (None, name, session) and a store request that is not
\* answered 200 gives (store id, name, session), the session left open.
C15_ClientReturnsEmptyOrOpenSession ==
    /\ LoadersReturnEmptyOnFailure
    /\ tool.name = "fetch_store_info" =>
          LET a == tool.args
          IN IF a.login # "ok" \/ a.byPhone = "exception"
                \/ (a.byPhone = "ok" /\ a.details = "exception")
             THEN ClientResult = NoStore
             ELSE IF a.byPhone = "non200"
             THEN ClientResult = [NoStore EXCEPT !.session = "open"]
             ELSE /\ ClientResult.store_id = backend.store.id
                  /\ ClientResult.session = "open"
                  /\ a.details = "non200" => ClientResult.store_name = "Unknown Restaurant"

C15_Witness ==
    /\ tool.name = "load_menu" /\ backend.menu = MalformedMenu
    /\ tool.args = [store |-> "s1", session |-> "open", outcome |-> "ok"]
    /\ ClientResult = EmptyMenu

-----------------------------------------------------------------------------
(* Properties of the prefetch and of the lazy loads *)

PrefetchSucceeded == prefetch.state = "done" /\ prefetch.menuOk /\ prefetch.kbOk

\* C6: after a successful prefetch the session holds the notification phone
\* and the transfer phone the store has configured, and transfer_to_manager
\* answers "no manager number configured" only for a store without a
\* transfer number.
C6_PrefetchLoadsStoreDetails ==
    PrefetchSucceeded =>
        /\ notification_phone = backend.store.notificationPhone
        /\ transfer_phone = backend.store.transferPhone
        /\ (tool.name = "transfer_to_manager" /\ tool.result.kind = NoManagerNumber)
              => backend.store.transferPhone = None

\* C7: when load_data ends, each data set holds what its own fetch returned:
\* the grouped menu (the knowledge-base list) of the backend when that fetch
\* succeeded, the empty value when it failed, whatever the other fetch did.
C7_PrefetchIsolatesFailures ==
    [][(prefetch.state = "running" /\ prefetch'.state = "done") =>
          /\ menu_by_category' = IF prefetch.menuOk
                                 THEN GroupInto(EmptyMenu, backend.menu)
                                 ELSE EmptyMenu
          /\ knowledge_base' = IF prefetch.kbOk /\ backend.kb.isList
                               THEN backend.kb.body
                               ELSE <<>>]_vars

C7_Witness ==
    /\ prefetch.state = "done" /\ ~prefetch.menuOk /\ prefetch.kbOk
    /\ menu_by_category = EmptyMenu /\ knowledge_base = <<HoursEntry>>
    /\ nTools = 0

FetchesOf(t, which) == IF which = "menu" THEN t.menuFetches ELSE t.kbFetches
OtherFetchesOf(t, which) == IF which = "menu" THEN t.kbFetches ELSE t.menuFetches

\* what C8 says of the fetches of one invocation: one fetch of exactly the
\* data set it reads when that was empty at the invocation, completed before
\* the read, and no fetch otherwise
LazyLoadOnlyWhenEmpty ==
    /\ tool.pc = "load" => tool.read = "none"
    /\ tool.read # "none" =>
          /\ FetchesOf(tool, tool.read) = (IF tool.emptyAtInvoke THEN 1 ELSE 0)
          /\ OtherFetchesOf(tool, tool.read) = 0
          /\ tool.emptyAtInvoke <=> tool.ownLoadDone

\* C8 as stated: ..., and no tool reads a catalog while neither the prefetch
\* nor its own fallback load has run to completion.
C8_ReadAfterPrefetchOrOwnLoad ==
    /\ LazyLoadOnlyWhenEmpty
    /\ tool.read # "none" => (tool.prefetchAtRead = "done" \/ tool.ownLoadDone)

\* C8 as amended: ..., and no tool reads a catalog before some load of it has
\* run to completion: the prefetch, its own fallback load, or the fallback
\* load of an earlier tool.
C8_ReadAfterSomeLoad ==
    /\ LazyLoadOnlyWhenEmpty
    /\ tool.read # "none" => tool.loadedAtRead

C8_Witness ==
    /\ tool.name = "place_order" /\ tool.pc = "post"
    /\ tool.read = "menu" /\ tool.emptyAtInvoke /\ tool.ownLoadDone
    /\ tool.menuFetches = 1 /\ tool.prefetchAtRead = "running"

-----------------------------------------------------------------------------
(* Properties of the transcript *)

\* the events that add an entry, by the claims' own words
IsFinalUtterance(e) ==
    e.type = "user_input_transcribed" /\ e.is_final /\ Strip(e.text) # ""

IsAssistantText(e) ==
    /\ e.type = "conversation_item_added" /\ e.role = "assistant"
    /\ e.text # None /\ Strip(e.text) # ""

Contents(seq) == [i \in 1..Len(seq) |-> seq[i].content]
Texts(seq) == [i \in 1..Len(seq) |-> Strip(seq[i].text)]

\* the entries the events call for, in arrival order
Arrivals ==
    LET at == SelectSeq([i \in 1..Len(events) |-> i],
                        LAMBDA i : IsFinalUtterance(events[i])
                                   \/ IsAssistantText(events[i]))
    IN [k \in 1..Len(at) |->
           [role |-> IF events[at[k]].type = "user_input_transcribed"
                     THEN "customer" ELSE "agent",
            content |-> Strip(events[at[k]].text),
            timestamp |-> at[k]]]

IsPrefix(s, t) == Len(s) <= Len(t) /\ SubSeq(t, 1, Len(s)) = s

ShutdownSaves == {i \in 1..Len(convLog) : convLog[i].by = "shutdown"}

\* C2 as stated: a call that has shut down has called create_conversation
\* from the shutdown callback exactly once.
C2_ShutdownSavesOnce ==
    pc = "done" => Cardinality(ShutdownSaves) = 1

\* C2 as amended: the shutdown callback calls create_conversation exactly
\* once when the transcript is not empty and not at all when it is empty,
\* whatever the save_conversation tool did during the call; it never calls
\* it before shutdown.
C2_ShutdownSavesOnceIfTranscript ==
    /\ pc \in {"start", "active"} => ShutdownSaves = {}
    /\ pc \in {"saving", "done"} =>
          Cardinality(ShutdownSaves) = (IF call_transcript # <<>> THEN 1 ELSE 0)

C2_Witness ==
    /\ pc = "done" /\ Cardinality(ShutdownSaves) = 1
    /\ \E i \in 1..Len(convLog) : convLog[i].by = "tool" /\ convLog[i].result = "saved"
    /\ \E i \in ShutdownSaves : convLog[i].posted /\ convLog[i].result = "error"

\* C3: the customer entries of the transcript are the final transcription
\* events with non-blank text, one entry each; an interim event adds none.
C3_OneCustomerEntryPerFinalUtterance ==
    Contents(SelectSeq(call_transcript, LAMBDA m : m.role = "customer"))
        = Texts(SelectSeq(events, IsFinalUtterance))

C3_Witness ==
    /\ Len(events) = 3 /\ Len(call_transcript) = 1
    /\ call_transcript[1].role = "customer"
    /\ \E i \in 1..3 : /\ events[i].type = "user_input_transcribed"
                       /\ ~events[i].is_final /\ Strip(events[i].text) # ""
    /\ \E i \in 1..3 : /\ events[i].type = "user_input_transcribed"
                       /\ events[i].is_final /\ Strip(events[i].text) = ""

\* C4: an added item appends an entry, of role "agent", exactly when its role is
\* "assistant" and its text content is a non-blank string; every other entry
\* of the transcript comes from a final transcription event.
C4_OnlyAssistantTextIsAppended ==
    /\ Contents(SelectSeq(call_transcript, LAMBDA m : m.role = "agent"))
          = Texts(SelectSeq(events, IsAssistantText))
    /\ Len(call_transcript) = Len(SelectSeq(events, IsAssistantText))
                              + Len(SelectSeq(events, IsFinalUtterance))

C4_Witness ==
    /\ Len(events) = 3 /\ Len(call_transcript) = 1
    /\ call_transcript[1].role = "agent"
    /\ \E i \in 1..3 : /\ events[i].type = "conversation_item_added"
                       /\ events[i].role = "user" /\ events[i].text = " ok "
    /\ \E i \in 1..3 : /\ events[i].type = "conversation_item_added"
                       /\ events[i].role = "assistant" /\ events[i].text = None

\* C5: the transcript only grows at its end, it lists the entries in arrival
\* order with the role of the event that produced each, and that is the list
\* the shutdown callback hands to create_conversation.
C5_TranscriptKeepsArrivalOrder ==
    /\ [](/\ call_transcript = Arrivals
          /\ \A i \in ShutdownSaves : convLog[i].messages = Arrivals)
    /\ [][IsPrefix(call_transcript, call_transcript')]_vars

C5_Witness ==
    /\ pc = "done" /\ ShutdownSaves # {}
    /\ \A i \in ShutdownSaves :
          /\ convLog[i].posted
          /\ [k \in 1..Len(convLog[i].messages) |-> convLog[i].messages[k].role]
                = <<"customer", "agent", "customer">>

====
